---- MODULE Spec2Model ----
(***************************************************************************)
(* Model of the phonics-check assistant's ingestion and export core        *)
(* (src/services/fileService.ts).                                          *)
(*                                                                         *)
(* JavaScript strings are modelled as sequences of one-character strings,  *)
(* so that trim, toLowerCase, includes and the regular expressions of the  *)
(* source are computed and not assumed.                                    *)
(***************************************************************************)
EXTENDS Integers, Sequences, FiniteSets, TLC

VARIABLES
    \* ---- findBestColumnMatch, applied to a header list and a candidate list
    cm_pc,          \* "ready" | "done"
    cm_headers,     \* availableHeaders
    cm_names,       \* possibleNames
    cm_headers2,    \* the same headers with the letter case of some changed
    cm_names2,      \* the same candidate names with their letter case changed
    cm_result,      \* findBestColumnMatch(cm_headers, cm_names)
    cm_result2,     \* findBestColumnMatch(cm_headers2, cm_names2)
    \* ---- parsePhonicsFile, applied to an uploaded spreadsheet
    sf_pc,          \* "ready" | "done"
    sf_file,        \* the uploaded file: how reading it goes, and its first worksheet
    sf_result,      \* how the returned promise settled
    \* ---- parsePhonicsPdf, applied to an uploaded PDF document
    pdf_pc,         \* "ready" | "pages" | "done"
    pdf_file,       \* the uploaded file: how reading it goes, and its pages
    pdf_pageNum,    \* pageNum of the page loop
    pdf_allWords,   \* allWords
    pdf_seenWords,  \* seenWords
    pdf_finalWords, \* finalWords after the trimming branches (Null: not reached)
    pdf_result,     \* how the returned promise settled
    \* ---- exportResultsToExcel, applied to a record in an environment
    ex_pc,          \* "load" | "sheets" | "workbook" | "summary" | "generate" | "done"
    ex_env,         \* the template candidates, the template and the record
    ex_candidate,   \* the position in TEMPLATE_CANDIDATES of the candidate tried next
    ex_fetched,     \* the candidates fetched so far, in order
    ex_zip,         \* the archive
    ex_download,    \* the download started: its file name and archive
    ex_alerts,      \* how many notices the user has been shown
    ex_promise,     \* "pending" | "resolved" | "rejected"
    \* ---- a cell of a worksheet document written to, and written to again
    cw_pc,          \* "ready" | "written"
    cw_doc,         \* the worksheet document
    cw_reference,   \* the coordinate written to
    cw_values,      \* the values written so far, in order
    cw_before,       \* the document before the last write
    \* ---- exportResultsToExcel called a second time with the same record
    xt_call,        \* which call of the export is running: 1 | 2
    xt_first,       \* the download the first call started
    \* ---- App, with the Assessment and Summary components it shows
    ap_view,        \* view: "dashboard" | "upload" | "newCheck" | "assessment" | "summary"
    ap_phonicsSets, \* phonicsSets
    ap_checkResults, \* checkResults
    ap_currentCheck, \* currentCheck: <<>> for null, <<record>> otherwise
    ap_now,         \* Date.now() when an id was last made
    ap_pupil,       \* what the pupil will get for the word at each position
    ap_uploaded,    \* every term set ever stored, deleted ones included
    as_wordIndex,   \* wordIndex of Assessment
    as_results,     \* results of Assessment
    as_note,        \* note of Assessment
    su_finalResult, \* finalResult of Summary: <<>> while Summary is not shown
    \* ---- handleUpload of UploadMaterials, applied to the file selected
    up_pc,          \* "ready" | "done"
    up_file,        \* file: <<>> for null, else its name and how parsing it goes
    up_parser,      \* the parser the file was handed to: "none" | "parsePhonicsPdf" | "parsePhonicsFile"
    up_error,       \* error
    up_newSets      \* how many sets onUploadSuccess was called with

cm_vars == <<cm_pc, cm_headers, cm_names, cm_headers2, cm_names2, cm_result, cm_result2>>
sf_vars == <<sf_pc, sf_file, sf_result>>
pdf_vars == <<pdf_pc, pdf_file, pdf_pageNum, pdf_allWords, pdf_seenWords, pdf_finalWords,
              pdf_result>>

ex_vars == <<ex_pc, ex_env, ex_candidate, ex_fetched, ex_zip, ex_download, ex_alerts,
             ex_promise>>

cw_vars == <<cw_pc, cw_doc, cw_reference, cw_values, cw_before>>

xt_vars == <<xt_call, xt_first>>

ap_vars == <<ap_view, ap_phonicsSets, ap_checkResults, ap_currentCheck, ap_now, ap_pupil, ap_uploaded, as_wordIndex, as_results, as_note, su_finalResult>>

up_vars == <<up_pc, up_file, up_parser, up_error, up_newSets>>

vars == <<cm_vars, sf_vars, pdf_vars, ex_vars, cw_vars, xt_vars, ap_vars, up_vars>>

\* a component that takes no part in a specification rests in its idle state
ColumnIdle ==
    /\ cm_pc = "idle" /\ cm_headers = <<>> /\ cm_names = <<>>
    /\ cm_headers2 = <<>> /\ cm_names2 = <<>> /\ cm_result = <<>> /\ cm_result2 = <<>>

SheetIdle == sf_pc = "idle" /\ sf_file = <<>> /\ sf_result = <<>>

PdfIdle ==
    /\ pdf_pc = "idle" /\ pdf_file = <<>> /\ pdf_pageNum = 0 /\ pdf_allWords = <<>>
    /\ pdf_seenWords = {} /\ pdf_finalWords = <<>> /\ pdf_result = <<>>

ExportIdle ==
    /\ ex_pc = "idle"
    /\ ex_env = <<>>
    /\ ex_candidate = 0
    /\ ex_fetched = <<>>
    /\ ex_zip = <<>>
    /\ ex_download = <<>>
    /\ ex_alerts = 0
    /\ ex_promise = "idle"

CellIdle ==
    /\ cw_pc = "idle"
    /\ cw_doc = <<>>
    /\ cw_reference = <<>>
    /\ cw_values = <<>>
    /\ cw_before = <<>>

TwiceIdle ==
    /\ xt_call = 0
    /\ xt_first = <<>>

AppIdle ==
    /\ ap_view = "idle"
    /\ ap_phonicsSets = <<>>
    /\ ap_checkResults = <<>>
    /\ ap_currentCheck = <<>>
    /\ ap_now = 0
    /\ ap_pupil = <<>>
    /\ ap_uploaded = {}
    /\ as_wordIndex = 0
    /\ as_results = <<>>
    /\ as_note = ""
    /\ su_finalResult = <<>>

UploadIdle ==
    /\ up_pc = "idle"
    /\ up_file = <<>>
    /\ up_parser = "none"
    /\ up_error = ""
    /\ up_newSets = 0

\* JavaScript null: a value that is no string (its one element is no character)
Null == <<"null">>

(***************************************************************************)
(* Strings                                                                 *)
(***************************************************************************)
UpperLetters ==
    <<"A", "B", "C", "D", "E", "F", "G", "H", "I", "J", "K", "L", "M",
      "N", "O", "P", "Q", "R", "S", "T", "U", "V", "W", "X", "Y", "Z">>

LowerLetters ==
    <<"a", "b", "c", "d", "e", "f", "g", "h", "i", "j", "k", "l", "m",
      "n", "o", "p", "q", "r", "s", "t", "u", "v", "w", "x", "y", "z">>

OtherChars == {" ", "0", "1", "2", "3", "4", "5", "6", "7", "8", "9", "-", "."}

Chars == {UpperLetters[i] : i \in 1..26} \cup {LowerLetters[i] : i \in 1..26} \cup OtherChars

IsUpper(c) == \E i \in 1..26 : UpperLetters[i] = c
IsLower(c) == \E i \in 1..26 : LowerLetters[i] = c

LowerMap ==
    [c \in Chars |-> IF IsUpper(c) THEN LowerLetters[CHOOSE i \in 1..26 : UpperLetters[i] = c] ELSE c]

UpperMap ==
    [c \in Chars |-> IF IsLower(c) THEN UpperLetters[CHOOSE i \in 1..26 : LowerLetters[i] = c] ELSE c]

LetterSet == {UpperLetters[i] : i \in 1..26} \cup {LowerLetters[i] : i \in 1..26}

IsLetter(c) == c \in LetterSet
LowerChar(c) == LowerMap[c]
UpperChar(c) == UpperMap[c]
SwapChar(c) == IF LowerMap[c] = c THEN UpperMap[c] ELSE LowerMap[c]

\* String.prototype.toLowerCase
toLowerCase(s) == [i \in 1..Len(s) |-> LowerChar(s[i])]
\* every letter of s with its case changed
SwapCase(s) == [i \in 1..Len(s) |-> SwapChar(s[i])]

\* whether t occurs in s at offset p (1-based)
OccursAt(s, t, p) ==
    /\ p + Len(t) - 1 <= Len(s)
    /\ \A j \in 1..Len(t) : s[p + j - 1] = t[j]

\* String.prototype.includes
includes(s, t) == \E p \in 1..(Len(s) + 1) : OccursAt(s, t, p)

\* Array.prototype.find over the outcomes of its test, one per element: the
\* position of the first element passing the test (0: none)
FirstTrue(flags) ==
    LET passing == {i \in 1..Len(flags) : flags[i]}
    IN  IF passing = {} THEN 0 ELSE CHOOSE i \in passing : \A j \in passing : i <= j

\* String.prototype.trim: the string without its leading and trailing white space
trim(s) ==
    IF \A i \in 1..Len(s) : s[i] = " " THEN <<>>
    ELSE SubSeq(s,
                CHOOSE i \in 1..Len(s) : s[i] # " " /\ \A j \in 1..(i - 1) : s[j] = " ",
                CHOOSE i \in 1..Len(s) : s[i] # " " /\ \A j \in (i + 1)..Len(s) : s[j] = " ")

\* n copies of the character c
Rep(c, n) == [i \in 1..n |-> c]

(***************************************************************************)
(* JavaScript values held by spreadsheet cells: undefined, a number or a   *)
(* string.                                                                 *)
(***************************************************************************)
Undefined == [t |-> "undef", n |-> 0, s |-> <<>>]
Num(k) == [t |-> "num", n |-> k, s |-> <<>>]
Str(chars) == [t |-> "str", n |-> 0, s |-> chars]

Digits == <<"0", "1", "2", "3", "4", "5", "6", "7", "8", "9">>

RECURSIVE NumToString(_)
NumToString(k) ==
    IF k < 10 THEN <<Digits[k + 1]>>
    ELSE NumToString(k \div 10) \o <<Digits[(k % 10) + 1]>>

\* `!v`: undefined, 0 and the empty string are falsy
Falsy(v) ==
    \/ v.t = "undef"
    \/ v.t = "num" /\ v.n = 0
    \/ v.t = "str" /\ v.s = <<>>

\* String(v)
StringOf(v) ==
    CASE v.t = "str" -> v.s
      [] v.t = "num" -> NumToString(v.n)
      [] OTHER -> <<"u", "n", "d", "e", "f", "i", "n", "e", "d">>

(***************************************************************************)
(* findBestColumnMatch                                                     *)
(***************************************************************************)
ItemNames ==
    << <<"i", "t", "e", "m">>, <<"w", "o", "r", "d">>, <<"t", "e", "x", "t">>,
       <<"c", "o", "n", "t", "e", "n", "t">>, <<"v", "a", "l", "u", "e">> >>

GraphemeNames ==
    << <<"g", "r", "a", "p", "h", "e", "m", "e">>, <<"t", "y", "p", "e">>,
       <<"c", "a", "t", "e", "g", "o", "r", "y">>, <<"g", "r", "o", "u", "p">>,
       <<"c", "l", "a", "s", "s">> >>

\* `if (exactMatch)`: a found header counts only when it is a truthy string
Truthy(s) == s # Null /\ s # <<>>

\* mutant: the headers compared as written, without toLowerCase
LowerAllOmitted(list) == list

\* the headers, or the candidate names, in lower case
LowerAll(list) == [i \in 1..Len(list) |-> toLowerCase(list[i])]

\* availableHeaders.find(h => h.toLowerCase() === name.toLowerCase())
ExactHeader(lowerHeaders, lowerName) ==
    FirstTrue([i \in 1..Len(lowerHeaders) |-> lowerHeaders[i] = lowerName])

\* availableHeaders.find(h => h.toLowerCase().includes(name.toLowerCase()))
PartialHeader(lowerHeaders, lowerName) ==
    FirstTrue([i \in 1..Len(lowerHeaders) |-> includes(lowerHeaders[i], lowerName)])

\* the first loop: the first candidate name, in list order, with an exact match
ExactMatch(headers, names) ==
    LET lh == LowerAll(headers)
        found == [k \in 1..Len(names) |-> ExactHeader(lh, toLowerCase(names[k]))]
        k0 == FirstTrue([k \in 1..Len(names) |->
                            found[k] # 0 /\ Truthy(headers[found[k]])])
    IN  IF k0 = 0 THEN 0 ELSE found[k0]

\* the second loop gone through by header: the first header containing any name
PartialMatchByHeader(headers, names) ==
    LET lh == LowerAll(headers)
        ln == LowerAll(names)
    IN  FirstTrue([i \in 1..Len(headers) |->
                      Truthy(headers[i]) /\ \E k \in 1..Len(names) : includes(lh[i], ln[k])])

\* the second loop: the first candidate name with a header containing it
PartialMatch(headers, names) ==
    LET lh == LowerAll(headers)
        found == [k \in 1..Len(names) |-> PartialHeader(lh, toLowerCase(names[k]))]
        k0 == FirstTrue([k \in 1..Len(names) |->
                            found[k] # 0 /\ Truthy(headers[found[k]])])
    IN  IF k0 = 0 THEN 0 ELSE found[k0]

\* mutant: no third loop
FuzzyMatchOmitted(headers, names) == 0

\* the third loop: the first header that contains, or is contained in, some name
FuzzyMatch(headers, names) ==
    LET lh == LowerAll(headers)
        ln == LowerAll(names)
    IN  FirstTrue([i \in 1..Len(headers) |->
                      \E k \in 1..Len(names) :
                          includes(ln[k], lh[i]) \/ includes(lh[i], ln[k])])

\* mutant: the substring rule tried before the exact rule
MatchOrderSwapped(headers, names) ==
    LET exact == ExactMatch(headers, names)
        partial == PartialMatch(headers, names)
    IN  IF partial # 0 THEN partial
        ELSE IF exact # 0 THEN exact
        ELSE FuzzyMatch(headers, names)

\* position in availableHeaders of the header findBestColumnMatch returns (0: null)
findBestColumnIndex(headers, names) ==
    LET exact == ExactMatch(headers, names)
        partial == PartialMatch(headers, names)
    IN  IF exact # 0 THEN exact
        ELSE IF partial # 0 THEN partial
        ELSE FuzzyMatch(headers, names)

findBestColumnMatch(headers, names) ==
    LET idx == findBestColumnIndex(headers, names)
    IN  IF idx = 0 THEN Null ELSE headers[idx]

(***************************************************************************)
(* parsePhonicsFile                                                        *)
(*                                                                         *)
(* The uploaded file is described by how reading it goes and by its first  *)
(* worksheet: a header row and n data rows.  Data row i holds the item     *)
(* text of row i (two letters that spell i, with white space around them)  *)
(* and a grapheme type, except for at most one row (at any position),      *)
(* whose cells are of one of the kinds below.                              *)
(***************************************************************************)
MinWords == 20
MaxWords == 40
MaxItemLength == 50

NotApplicableExcel ==
    <<"N", "/", "A", " ", "(", "f", "r", "o", "m", " ", "E", "x", "c", "e", "l", ")">>

H_Item == <<"I", "t", "e", "m">>
H_GraphemeType == <<"G", "r", "a", "p", "h", "e", "m", "e", " ", "T", "y", "p", "e">>
H_Word == <<"W", "o", "r", "d">>
H_It == <<"i", "t">>
H_WordType == <<"W", "o", "r", "d", " ", "T", "y", "p", "e">>
H_Notes == <<"N", "o", "t", "e", "s">>

\* the header row of the worksheet, and what each column holds
Layouts ==
    { [headers |-> <<H_Item, H_GraphemeType>>, roles |-> <<"item", "grapheme">>],
      [headers |-> <<H_GraphemeType, H_Item>>, roles |-> <<"grapheme", "item">>],
      [headers |-> <<H_Word>>, roles |-> <<"item">>],
      [headers |-> <<H_It>>, roles |-> <<"item">>],
      [headers |-> <<H_WordType>>, roles |-> <<"item">>],
      [headers |-> <<H_Notes>>, roles |-> <<"other">>] }

RowKinds ==
    { "ok",        \* item text with white space around it, grapheme type
      "noItem",    \* the item cell is empty
      "blank",     \* the item cell holds white space only
      "empty",     \* the item cell holds the empty string
      "zero",      \* the item cell holds the number 0
      "number",    \* the item cell holds the number 7
      "long",      \* the item text is MaxItemLength + 1 characters long
      "max",       \* the item text is MaxItemLength characters long
      "noGraph" }  \* the grapheme type cell is empty

\* the item text of data row i: no two rows hold the same
ItemText(i) == <<LowerLetters[((i - 1) \div 26) + 1], LowerLetters[((i - 1) % 26) + 1]>>

ItemCell(kind, i) ==
    CASE kind = "noItem" -> Undefined
      [] kind = "blank" -> Str(<<" ", " ">>)
      [] kind = "empty" -> Str(<<>>)
      [] kind = "zero" -> Num(0)
      [] kind = "number" -> Num(7)
      [] kind = "long" -> Str(<<" ">> \o Rep("b", MaxItemLength + 1))
      [] kind = "max" -> Str(Rep("b", MaxItemLength) \o <<" ">>)
      [] OTHER -> Str(<<" ">> \o ItemText(i) \o <<" ">>)

GraphemeCell(kind, i) ==
    IF kind = "noGraph" THEN Undefined ELSE Str(<<" ", "c", "v", "c", " ">>)

\* the kind of data row i of the worksheet
KindOfRow(file, i) == IF i = file.oddPos THEN file.oddKind ELSE "ok"

\* the cell of data row i in column c
SheetCell(file, i, c) ==
    IF file.layout.roles[c] = "item" THEN ItemCell(KindOfRow(file, i), i)
    ELSE GraphemeCell(KindOfRow(file, i), i)

\* XLSX.utils.sheet_to_json: one object per data row, keyed by header, holding
\* the non-empty cells in column order; a row with no cell at all yields no object
RowObject(file, i) ==
    SelectSeq([c \in 1..Len(file.layout.headers) |->
                  [key |-> file.layout.headers[c], value |-> SheetCell(file, i, c)]],
              LAMBDA kv : kv.value.t # "undef")

sheet_to_json(file) ==
    SelectSeq([i \in 1..file.n |-> RowObject(file, i)], LAMBDA row : Len(row) > 0)

\* Object.keys(row)
Keys(row) == [c \in 1..Len(row) |-> row[c].key]

\* row[column]: undefined when the row has no such key
Get(row, column) ==
    IF \E c \in 1..Len(row) : row[c].key = column
    THEN row[CHOOSE c \in 1..Len(row) : row[c].key = column].value
    ELSE Undefined

\* columns: the header list the error message spells out (Null: none)
Rejected(why, n) ==
    [status |-> "rejected", error |-> why, count |-> n, words |-> Null, columns |-> Null]
Resolved(list) ==
    [status |-> "resolved", error |-> "none", count |-> Len(list), words |-> list,
     columns |-> Null]

\* the two `continue` conditions of the row loop
SkipRow(row, itemColumn) ==
    LET item == Get(row, itemColumn)
        itemStr == trim(StringOf(item))
    IN  \/ Falsy(item) \/ itemStr = <<>>
        \/ Len(itemStr) < 1 \/ Len(itemStr) > MaxItemLength

\* the word pushed for a row that is not skipped
WordOfRow(row, itemColumn, graphemeColumn) ==
    LET graphemeType == IF Truthy(graphemeColumn) THEN Get(row, graphemeColumn)
                        ELSE Str(NotApplicableExcel)
    IN  [item |-> trim(StringOf(Get(row, itemColumn))),
         graphemeType |-> trim(StringOf(graphemeType))]

\* the row loop: the words of the rows that are not skipped, in row order
WordsOfRows(json, itemColumn, graphemeColumn) ==
    LET kept == SelectSeq(json, LAMBDA row : ~SkipRow(row, itemColumn))
    IN  [k \in 1..Len(kept) |-> WordOfRow(kept[k], itemColumn, graphemeColumn)]

\* the promise parsePhonicsFile returns, once settled
parsePhonicsFile(file) ==
    IF file.read = "error" THEN Rejected("Error reading the Excel file.", 0)
    ELSE IF file.read = "noResult" THEN Rejected("File could not be read.", 0)
    ELSE IF file.book = "throws" THEN Rejected("Failed to parse Excel file", 0)
    ELSE IF file.book = "noSheets" THEN Rejected("The Excel file contains no worksheets.", 0)
    ELSE
    LET json == sheet_to_json(file)
    IN  IF Len(json) = 0 THEN Rejected("The Excel file is empty or contains no data rows.", 0)
        ELSE
        LET headers == Keys(json[1])
            itemColumn == findBestColumnMatch(headers, ItemNames)
            graphemeColumn == findBestColumnMatch(headers, GraphemeNames)
        IN  IF ~Truthy(itemColumn)
            THEN [Rejected("Could not find a column for words/items.", 0)
                      EXCEPT !.columns = headers]
            ELSE
            LET words == WordsOfRows(json, itemColumn, graphemeColumn)
            IN  IF Len(words) = 0 THEN Rejected("No valid words found in the Excel file.", 0)
                ELSE IF Len(words) < MinWords \/ Len(words) > MaxWords
                     THEN Rejected("Expected 20-40 words for a phonics check", Len(words))
                ELSE Resolved(words)

(***************************************************************************)
(* Specification SpecSheet: parsePhonicsFile on bounded spreadsheets       *)
(***************************************************************************)
MaxRows == 42

\* a row with no cell at all does not exist in a worksheet's data
KindFits(layout, kind) ==
    \/ Len(layout.headers) > 1
    \/ kind \notin {"noItem", "noGraph"}

SheetFiles ==
    { f \in [read : {"ok"}, book : {"ok"}, layout : Layouts, n : 0..MaxRows,
             oddPos : 0..MaxRows, oddKind : RowKinds] :
        /\ f.oddPos <= f.n
        /\ (f.oddPos = 0 => f.oddKind = "ok")
        /\ KindFits(f.layout, f.oddKind) }

\* files that cannot be read, or that hold no workbook or no worksheet
BrokenFiles ==
    { [read |-> r, book |-> b, layout |-> l, n |-> 0, oddPos |-> 0, oddKind |-> "ok"] :
        r \in {"ok", "error", "noResult"}, b \in {"ok", "throws", "noSheets"},
        l \in {x \in Layouts : x.headers = <<H_Word>>} }

SheetInit ==
    /\ sf_pc = "ready"
    /\ sf_file \in SheetFiles \cup BrokenFiles
    /\ sf_result = Rejected("pending", 0)

\* reader.onload / reader.onerror: the promise settles
SheetParse ==
    /\ sf_pc = "ready"
    /\ sf_pc' = "done"
    /\ sf_result' = parsePhonicsFile(sf_file)
    /\ UNCHANGED sf_file

SheetNext == SheetParse /\ UNCHANGED <<cm_vars, pdf_vars, ex_vars, cw_vars, xt_vars, ap_vars, up_vars>>

SheetSpecInit == SheetInit /\ ColumnIdle /\ PdfIdle /\ ExportIdle /\ CellIdle /\ TwiceIdle /\ AppIdle /\ UploadIdle

SpecSheet == SheetSpecInit /\ [][SheetNext]_vars

\* the item column of the worksheet: the position in its header row of the
\* header findBestColumnMatch finds there (0: none)
ItemColumnOf(file) == findBestColumnIndex(file.layout.headers, ItemNames)

\* the item text of data row i: its cell in column c, as a trimmed string
ItemTextOf(file, i, c) == trim(StringOf(SheetCell(file, i, c)))

\* a valid row: its item cell is not blank and its trimmed text is 1..50 long
ValidRow(file, i, c) ==
    /\ SheetCell(file, i, c).t # "undef"
    /\ Len(ItemTextOf(file, i, c)) >= 1
    /\ Len(ItemTextOf(file, i, c)) <= MaxItemLength

\* the data rows of a readable worksheet that are valid, in row order
ValidRows(file) ==
    LET c == ItemColumnOf(file)
    IN  IF file.read = "ok" /\ file.book = "ok" /\ c # 0
        THEN SelectSeq([i \in 1..file.n |-> i], LAMBDA i : ValidRow(file, i, c))
        ELSE <<>>

\* C1: the ingestion succeeds exactly when the number of valid rows (item not
\* blank, trimmed length 1..50) lies in 20..40, and a rejected ingestion
\* returns no word list.
C1_AcceptedIffValidCount ==
    sf_pc = "done" =>
        LET valid == Len(ValidRows(sf_file))
        IN  /\ sf_result.status = "resolved" <=> (valid >= MinWords /\ valid <= MaxWords)
            /\ sf_result.status = "rejected" => sf_result.words = Null

\* C2: the words of an accepted spreadsheet are its valid rows in row order:
\* the k-th word is the trimmed item text of the k-th valid row.
C2_WordsAreValidRowsInOrder ==
    (sf_pc = "done" /\ sf_result.status = "resolved") =>
        LET valid == ValidRows(sf_file)
            c == ItemColumnOf(sf_file)
        IN  /\ Len(sf_result.words) = Len(valid)
            /\ \A k \in 1..Len(sf_result.words) :
                   k <= Len(valid) => sf_result.words[k].item = ItemTextOf(sf_file, valid[k], c)

\* the kinds of row whose item cell is blank after trimming, or whose trimmed
\* item text is longer than MaxItemLength
SkippedKinds == {"noItem", "blank", "empty", "long"}

\* the data rows the row loop is to keep: all but the odd row of a skipped kind
RowsKept(file) ==
    IF file.oddPos # 0 /\ file.oddKind \in SkippedKinds THEN file.n - 1 ELSE file.n

\* C21: a row whose item cell is blank after trimming, or whose trimmed item
\* text is longer than 50 characters, is skipped without failing the ingestion
\* at every row position, the first data row included: the ingestion of a
\* worksheet with such a row fails only when the rows left are fewer than 20 or
\* more than 40, and otherwise returns one word for each row left.
C21_SkippedRowsNeverFail ==
    (/\ sf_pc = "done"
     /\ sf_file.read = "ok" /\ sf_file.book = "ok"
     /\ sf_file.oddKind \in SkippedKinds) =>
        LET left == RowsKept(sf_file)
        IN  IF left >= MinWords /\ left <= MaxWords
            THEN sf_result.status = "resolved" /\ Len(sf_result.words) = left
            ELSE sf_result.status = "rejected"

\* the header list the ingestion works with: the headers of the columns whose
\* cell in the first data row is not empty
AvailableHeaders(file) ==
    LET filled == SelectSeq([c \in 1..Len(file.layout.headers) |-> c],
                            LAMBDA c : SheetCell(file, 1, c).t # "undef")
    IN  [k \in 1..Len(filled) |-> file.layout.headers[filled[k]]]

\* the header matches the candidate name by the exact, substring or fuzzy rule
MatchesName(header, name) ==
    \/ toLowerCase(header) = toLowerCase(name)
    \/ includes(toLowerCase(header), toLowerCase(name))
    \/ includes(toLowerCase(name), toLowerCase(header))

SomeHeaderMatches(headers, names) ==
    \E i \in 1..Len(headers) : \E k \in 1..Len(names) : MatchesName(headers[i], names[k])

ColumnNotFound(result) == result.error = "Could not find a column for words/items."

\* the same worksheet with a grapheme-type column next to its only column
WithGraphemeColumn(file) ==
    [file EXCEPT !.layout = [headers |-> file.layout.headers \o <<H_GraphemeType>>,
                             roles |-> file.layout.roles \o <<"grapheme">>]]

C29_ColumnsDiffer ==
    (sf_pc = "done" /\ sf_file.read = "ok" /\ sf_file.book = "ok" /\ sf_file.n > 0) =>
        LET headers == AvailableHeaders(sf_file)
            itemColumn == findBestColumnMatch(headers, ItemNames)
            graphemeColumn == findBestColumnMatch(headers, GraphemeNames)
        IN  (Truthy(itemColumn) /\ Truthy(graphemeColumn)) =>
                /\ itemColumn # graphemeColumn
                /\ sf_result.status = "resolved" =>
                       \A k \in 1..Len(sf_result.words) :
                           sf_result.words[k].graphemeType # sf_result.words[k].item

(***************************************************************************)
(* parsePhonicsPdf                                                         *)
(*                                                                         *)
(* A page is the sequence of its text items, each with the text (str) and  *)
(* the rendered height in tenths of a unit.                                *)
(***************************************************************************)
MinPageChars == 50
MinWordLength == 2
MaxWordLength == 20
PracticeCount == 4
PracticeMaxLength == 3
TrimAbove == 44

NotApplicablePdf == <<"N", "/", "A", " ", "(", "f", "r", "o", "m", " ", "P", "D", "F", ")">>

ExcludeWords ==
    { <<"t", "h", "e">>, <<"a", "n", "d">>, <<"f", "o", "r">>, <<"a", "r", "e">>,
      <<"b", "u", "t">>, <<"n", "o", "t">>, <<"y", "o", "u">>, <<"a", "l", "l">>,
      <<"c", "a", "n">>, <<"h", "a", "d">>, <<"h", "e", "r">>, <<"w", "a", "s">>,
      <<"o", "n", "e">>, <<"o", "u", "r">>, <<"o", "u", "t">>, <<"d", "a", "y">>,
      <<"g", "e", "t">>, <<"h", "a", "s">>, <<"h", "i", "m">>, <<"h", "i", "s">>,
      <<"h", "o", "w">>, <<"i", "t", "s">>, <<"m", "a", "y">>, <<"n", "e", "w">>,
      <<"n", "o", "w">>, <<"o", "l", "d">>, <<"s", "e", "e">>, <<"t", "w", "o">>,
      <<"w", "a", "y">>, <<"w", "h", "o">>, <<"p", "r", "a", "c", "t", "i", "c", "e">>,
      <<"s", "h", "e", "e", "t">>,
      <<"f", "a", "m", "i", "l", "i", "a", "r", "i", "s", "a", "t", "i", "o", "n">>,
      <<"b", "e", "f", "o", "r", "e">>, <<"b", "e", "g", "i", "n", "s">>,
      <<"l", "a", "b", "e", "l", "l", "e", "d">>, <<"s", "t", "u", "d", "e", "n", "t">>,
      <<"m", "a", "t", "e", "r", "i", "a", "l", "s">> }

PracticeWords ==
    << <<"i", "t">>, <<"o", "n">>, <<"i", "n">>, <<"a", "t">>, <<"u", "p">>, <<"i", "f">>,
      <<"i", "s">>, <<"a", "s">>, <<"b", "y">>, <<"o", "r">>, <<"s", "o">>, <<"n", "o">>,
      <<"g", "o">>, <<"d", "o">>, <<"t", "o">>, <<"m", "e">>, <<"m", "y">>, <<"h", "e">>,
      <<"s", "h", "e">>, <<"w", "e">>, <<"b", "e">> >>

headerTerms ==
    << <<"p", "u", "b", "l", "i", "s", "h", "e", "d", " ", "b", "y">>,
      <<"p", "r", "a", "c", "t", "i", "c", "e", " ", "s", "h", "e", "e", "t">>,
      <<"i", "n", "s", "t", "r", "u", "c", "t", "i", "o", "n", "s">>,
      <<"t", "e", "a", "c", "h", "e", "r", " ", "g", "u", "i", "d", "e">> >>

\* Math.round of a height given in tenths
Round(tenths) == (tenths + 5) \div 10

\* pageText.map(item => item.text.toLowerCase()).join(' ') for the items
\* first..last: the join of the two halves, a blank between them
RECURSIVE JoinLower(_, _, _)
JoinLower(pageText, first, last) ==
    IF first > last THEN <<>>
    ELSE IF first = last THEN toLowerCase(pageText[first].text)
    ELSE LET middle == (first + last) \div 2
         IN  JoinLower(pageText, first, middle) \o <<" ">>
                 \o JoinLower(pageText, middle + 1, last)

\* text.split(term).length - 1: the occurrences of term in text from offset p
\* on, taken left to right, none overlapping another
RECURSIVE CountFrom(_, _, _)
CountFrom(text, term, p) ==
    LET hits == {q \in p..(Len(text) - Len(term) + 1) : OccursAt(text, term, q)}
    IN  IF hits = {} THEN 0
        ELSE 1 + CountFrom(text, term,
                           (CHOOSE q \in hits : \A r \in hits : q <= r) + Len(term))

Occurrences(text, term) == CountFrom(text, term, 1)

\* text.split(/\s+/).length: one more than the runs of white space in text
SplitOnSpaceLength(text) ==
    1 + Cardinality({i \in 1..Len(text) : text[i] = " " /\ (i = 1 \/ text[i - 1] # " ")})

\* Array.prototype.slice(from, to) for 0 <= from: elements from + 1 .. to
Slice(list, from, to) ==
    SubSeq(list, from + 1, IF to < Len(list) THEN to ELSE Len(list))

\* Array.prototype.slice(-count): the last count elements
SliceLast(list, count) ==
    SubSeq(list, IF Len(list) > count THEN Len(list) - count + 1 ELSE 1, Len(list))

\* the page's items with the text trimmed, without the items of empty text
pageTextOf(items) ==
    SelectSeq([i \in 1..Len(items) |-> [text |-> trim(items[i].str), height |-> items[i].height]],
              LAMBDA item : Len(item.text) > 0)

fullPageTextOf(pageText) == JoinLower(pageText, 1, Len(pageText))

headerWordCountOf(fullPageText) ==
    LET counts == [t \in 1..Len(headerTerms) |-> Occurrences(fullPageText, headerTerms[t])]
    IN  counts[1] + counts[2] + counts[3] + counts[4]

\* skipReasons of a page
skipReasonsOf(pageText) ==
    LET fullPageText == fullPageTextOf(pageText)
    IN  (IF \E t \in 1..Len(headerTerms) : Occurrences(fullPageText, headerTerms[t]) + 1 > 2
         THEN {"contains multiple header terms"} ELSE {})
        \cup (IF Len(fullPageText) < MinPageChars THEN {"too short"} ELSE {})
        \cup (IF 10 * headerWordCountOf(fullPageText) > 8 * SplitOnSpaceLength(fullPageText)
              THEN {"mostly headers/instructions"} ELSE {})

\* sizeCounts[size] of a page
SizeCount(pageText, size) ==
    Cardinality({i \in 1..Len(pageText) : Round(pageText[i].height) = size})

\* mutant: every size of the page is taken
commonSizesAll(pageText) == {Round(pageText[i].height) : i \in 1..Len(pageText)}

\* sortedSizes.slice(0, 2): the keys of sizeCounts come in ascending order and
\* the sort by descending count keeps that order among equal counts
commonSizesOf(pageText) ==
    LET sizes == {Round(pageText[i].height) : i \in 1..Len(pageText)}
        before(a, b) == \/ SizeCount(pageText, a) > SizeCount(pageText, b)
                        \/ SizeCount(pageText, a) = SizeCount(pageText, b) /\ a < b
    IN  {b \in sizes : Cardinality({a \in sizes : before(a, b)}) < 2}

\* /^[a-z]+$/i
IsAlphabetic(text) == Len(text) >= 1 /\ \A i \in 1..Len(text) : IsLetter(text[i])

\* excludePatterns.test(cleanText)
IsExcluded(cleanText) == toLowerCase(cleanText) \in ExcludeWords

\* the test of the filter that yields pageWords
IsCandidate(text, seenWords) ==
    LET cleanText == trim(toLowerCase(text))
        isValidWord == /\ Len(cleanText) >= MinWordLength
                       /\ Len(cleanText) <= MaxWordLength
                       /\ IsAlphabetic(cleanText)
                       /\ cleanText \notin seenWords
    IN  IF IsExcluded(cleanText) THEN FALSE ELSE isValidWord

pageWordsOf(pageText, seenWords) ==
    LET commonSizes == commonSizesOf(pageText)
        sized == SelectSeq(pageText, LAMBDA item : Round(item.height) \in commonSizes)
        texts == [i \in 1..Len(sized) |-> sized[i].text]
    IN  SelectSeq(texts, LAMBDA text : IsCandidate(text, seenWords))

\* the practice-word pattern, which ignores case
IsPracticeWord(word) == \E i \in 1..Len(PracticeWords) : PracticeWords[i] = toLowerCase(word)

\* mutant: a listed word is suppressed wherever it is met
isLikelyPracticeWordAnywhere(word, allWords) == IsPracticeWord(word)

isLikelyPracticeWord(word, allWords) ==
    /\ Len(allWords) < PracticeCount
    /\ Len(word) <= PracticeMaxLength
    /\ IsPracticeWord(word)

\* mutant: the callback does not look at seenWords
AddWordUnseen(word, allWords, seenWords) ==
    [allWords |-> IF isLikelyPracticeWord(word, allWords) THEN allWords
                  ELSE Append(allWords, word),
     seenWords |-> seenWords \cup {toLowerCase(word)}]

\* mutant: a suppressed word is not recorded in seenWords
AddWordForgetsSuppressed(word, allWords, seenWords) ==
    LET lowerWord == toLowerCase(word)
    IN  IF lowerWord \in seenWords \/ isLikelyPracticeWord(word, allWords)
        THEN [allWords |-> allWords, seenWords |-> seenWords]
        ELSE [allWords |-> Append(allWords, word),
              seenWords |-> seenWords \cup {lowerWord}]

\* the callback of pageWords.forEach: allWords and seenWords after one word
AddWord(word, allWords, seenWords) ==
    LET lowerWord == toLowerCase(word)
    IN  IF lowerWord \in seenWords
        THEN [allWords |-> allWords, seenWords |-> seenWords]
        ELSE [allWords |-> IF isLikelyPracticeWord(word, allWords) THEN allWords
                           ELSE Append(allWords, word),
              seenWords |-> seenWords \cup {lowerWord}]

\* pageWords.forEach over the words first..last, in order: the second half of
\* them from where the first half ends (the first half is one value, h, by the
\* time the second is entered)
RECURSIVE AddWords(_, _, _, _, _)
AddWords(pageWords, first, last, allWords, seenWords) ==
    IF first > last THEN [allWords |-> allWords, seenWords |-> seenWords]
    ELSE IF first = last THEN AddWord(pageWords[first], allWords, seenWords)
    ELSE LET middle == (first + last) \div 2
             half == AddWords(pageWords, first, middle, allWords, seenWords)
         IN  CHOOSE after \in {AddWords(pageWords, middle + 1, last,
                                        h.allWords, h.seenWords) : h \in {half}} : TRUE

\* mutant: a page is never skipped
processPageNeverSkipped(items, allWords, seenWords) ==
    LET pageText == pageTextOf(items)
        pageWords == pageWordsOf(pageText, seenWords)
    IN  AddWords(pageWords, 1, Len(pageWords), allWords, seenWords)

\* one turn of the page loop: allWords and seenWords after the page
processPage(items, allWords, seenWords) ==
    LET pageText == pageTextOf(items)
    IN  IF skipReasonsOf(pageText) # {}
        THEN [allWords |-> allWords, seenWords |-> seenWords]
        ELSE LET pageWords == pageWordsOf(pageText, seenWords)
             IN  AddWords(pageWords, 1, Len(pageWords), allWords, seenWords)

TrimOmitted(allWords) == allWords

TrimFirstBranchOnly(allWords) == Slice(allWords, PracticeCount, TrimAbove)

TrimFromFourth(allWords) ==
    IF Len(allWords) > TrimAbove THEN Slice(allWords, PracticeCount - 1, TrimAbove - 1)
    ELSE IF Len(allWords) >= MaxWords THEN SliceLast(allWords, MaxWords)
    ELSE allWords

\* the three trimming branches
trimPracticeWords(allWords) ==
    IF Len(allWords) > TrimAbove THEN Slice(allWords, PracticeCount, TrimAbove)
    ELSE IF Len(allWords) >= MaxWords THEN SliceLast(allWords, MaxWords)
    ELSE allWords

\* the words resolved with: finalWords, cut to 40 when longer
capWords(finalWords) ==
    IF Len(finalWords) > MaxWords THEN Slice(finalWords, 0, MaxWords) ELSE finalWords

\* what follows the page loop
finishPdf(allWords) ==
    LET finalWords == trimPracticeWords(allWords)
        capped == capWords(finalWords)
    IN  IF Len(allWords) = 0 THEN Rejected("Could not find any words in the PDF.", 0)
        ELSE IF Len(finalWords) < MinWords
             THEN Rejected("Expected 20-40 words for a phonics check", Len(finalWords))
        ELSE Resolved([k \in 1..Len(capped) |->
                          [item |-> capped[k], graphemeType |-> NotApplicablePdf]])

(***************************************************************************)
(* Specification SpecPdf: parsePhonicsPdf on bounded documents.            *)
(*                                                                         *)
(* The text items of a document are `lead` listed function words, then n   *)
(* different two-letter words, all of one rounded height, with at most one *)
(* further item of one of the kinds below put in at one of a few places;   *)
(* or with a banner of items of other heights at the top of page 1.  The   *)
(* items stand on one page, or on two with the break at a given place.     *)
(***************************************************************************)
MaxLead == 4
MaxPdfWords == 46

WordLetters == <<"q", "v", "x", "z", "k", "j", "w">>

\* the k-th word of the document: no two are the same, none is a listed word
PdfWord(k) ==
    LET first == WordLetters[((k - 1) \div 7) + 1]
        second == WordLetters[((k - 1) % 7) + 1]
    IN  IF k % 3 = 0 THEN <<UpperChar(first), second>> ELSE <<first, second>>

OddKinds ==
    { "common",    \* a listed two-letter function word
      "she",       \* the listed three-letter function word
      "excluded",  \* a word of the exclusion set
      "dupe",      \* the first item of the document again, in the other letter case
      "digit",     \* a letter and a digit
      "short",     \* one letter
      "long",      \* MaxWordLength + 1 letters
      "max",       \* MaxWordLength letters
      "blank" }    \* white space only

OddSpots == {1, 5, 24}
BreakSpots == {22}

\* the items of the document without the odd one
BaseTexts(file) ==
    [i \in 1..(file.lead + file.n) |->
        IF i <= file.lead THEN PracticeWords[i] ELSE PdfWord(i - file.lead)]

OddText(file) ==
    CASE file.oddKind = "common" -> <<"T", "o">>
      [] file.oddKind = "she" -> <<"s", "h", "e">>
      [] file.oddKind = "excluded" -> <<"T", "h", "e">>
      [] file.oddKind = "dupe" ->
            IF file.lead + file.n > 0 THEN SwapCase(BaseTexts(file)[1]) ELSE PdfWord(1)
      [] file.oddKind = "digit" -> <<"q", "1">>
      [] file.oddKind = "short" -> <<"q">>
      [] file.oddKind = "long" -> Rep("q", MaxWordLength + 1)
      [] file.oddKind = "max" -> Rep("v", MaxWordLength)
      [] OTHER -> <<" ", " ">>

\* the texts of the body items, the odd one put in at its place
BodyTexts(file) ==
    LET base == BaseTexts(file)
    IN  IF file.oddPos = 0 THEN base
        ELSE SubSeq(base, 1, file.oddPos - 1) \o <<OddText(file)>>
                 \o SubSeq(base, file.oddPos, Len(base))

\* body items are 11.6, 12.4 and 13.6 high in turn: rounded, 12, 12 and 14
BodyItems(file) ==
    LET texts == BodyTexts(file)
    IN  [i \in 1..Len(texts) |->
            [str |-> <<" ">> \o texts[i],
             height |-> IF i % 3 = 1 THEN 116 ELSE IF i % 3 = 2 THEN 124 ELSE 136]]

BannerTitle ==
    <<"K", "o", "t", "a", "k", "u", "r", "e", "o", " ", "p", "h", "o", "n", "i", "c", "s", " ", "c", "h", "e", "c", "k", " ", "f", "o", "r", " ", "y", "e", "a", "r", " ", "o", "n", "e">>

BannerHeader ==
    <<"I", "n", "s", "t", "r", "u", "c", "t", "i", "o", "n", "s", " ", "i", "n", "s", "t", "r", "u", "c", "t", "i", "o", "n", "s">>

\* "sizes": a title line and a word of rounded height 20 and a word of rounded
\* height 30; "header": one line of rounded height 30 with a header term twice
BannerItems(file) ==
    CASE file.banner = "sizes" ->
            << [str |-> BannerTitle, height |-> 200],
               [str |-> <<"W", "o", "r", "d", "s">>, height |-> 204],
               [str |-> <<"B", "i", "g">>, height |-> 296] >>
      [] file.banner = "header" -> << [str |-> BannerHeader, height |-> 296] >>
      [] OTHER -> <<>>

\* pdf.numPages
NumPages(file) ==
    IF file.doc = "noPages" THEN 0 ELSE IF file.break = 0 THEN 1 ELSE 2

\* textContent.items of page pageNum
PageItems(file, pageNum) ==
    LET body == BodyItems(file)
    IN  IF file.break = 0 THEN BannerItems(file) \o body
        ELSE IF pageNum = 1 THEN BannerItems(file) \o SubSeq(body, 1, file.break)
        ELSE SubSeq(body, file.break + 1, Len(body))

PdfFiles ==
    { f \in [read : {"ok"}, doc : {"ok"}, lead : 0..MaxLead, n : 0..MaxPdfWords,
             break : {0} \cup BreakSpots, oddPos : {0} \cup OddSpots,
             oddKind : {"none"} \cup OddKinds, banner : {"none", "sizes", "header"}] :
        /\ (f.oddPos = 0 <=> f.oddKind = "none")
        /\ f.oddPos <= f.lead + f.n + 1
        /\ (f.oddPos # 0 => f.banner = "none")
        /\ f.break < f.lead + f.n }

\* files that cannot be read, and documents that cannot be opened, whose page
\* cannot be got, or that have no page
BrokenPdfs ==
    { [read |-> r, doc |-> d, lead |-> 0, n |-> 0, break |-> 0, oddPos |-> 0,
       oddKind |-> "none", banner |-> "none"] :
        r \in {"ok", "error", "noResult"}, d \in {"throws", "pageThrows", "noPages"} }

PdfInit ==
    /\ pdf_pc = "ready"
    /\ pdf_file \in PdfFiles \cup BrokenPdfs
    /\ pdf_pageNum = 0
    /\ pdf_allWords = <<>>
    /\ pdf_seenWords = {}
    /\ pdf_finalWords = Null
    /\ pdf_result = Rejected("pending", 0)

\* finalWords as the trimming branches leave it (Null: the branches are not reached)
finalWordsOf(allWords) ==
    IF Len(allWords) = 0 THEN Null ELSE trimPracticeWords(allWords)

\* reader.onerror, or reader.onload up to the first page
PdfStart ==
    /\ pdf_pc = "ready"
    /\ IF pdf_file.read = "error"
       THEN pdf_pc' = "done" /\ pdf_result' = Rejected("Error reading the file.", 0)
            /\ UNCHANGED <<pdf_pageNum, pdf_finalWords>>
       ELSE IF pdf_file.read = "noResult"
       THEN pdf_pc' = "done" /\ pdf_result' = Rejected("File could not be read.", 0)
            /\ UNCHANGED <<pdf_pageNum, pdf_finalWords>>
       ELSE IF pdf_file.doc = "throws"
       THEN pdf_pc' = "done" /\ pdf_result' = Rejected("Failed to parse PDF file", 0)
            /\ UNCHANGED <<pdf_pageNum, pdf_finalWords>>
       ELSE IF NumPages(pdf_file) = 0
       THEN pdf_pc' = "done" /\ pdf_result' = finishPdf(pdf_allWords)
            /\ pdf_pageNum' = 1 /\ pdf_finalWords' = finalWordsOf(pdf_allWords)
       ELSE pdf_pc' = "pages" /\ pdf_pageNum' = 1
            /\ UNCHANGED <<pdf_result, pdf_finalWords>>
    /\ UNCHANGED <<pdf_file, pdf_allWords, pdf_seenWords>>

\* one turn of the page loop and, after the last page, the rest of the handler
PdfPage ==
    /\ pdf_pc = "pages"
    /\ pdf_pageNum <= NumPages(pdf_file)
    /\ IF pdf_file.doc = "pageThrows"
       THEN /\ pdf_pc' = "done"
            /\ pdf_result' = Rejected("Failed to parse PDF file", 0)
            /\ UNCHANGED <<pdf_pageNum, pdf_allWords, pdf_seenWords, pdf_finalWords>>
       ELSE LET after == processPage(PageItems(pdf_file, pdf_pageNum),
                                     pdf_allWords, pdf_seenWords)
            IN  /\ pdf_allWords' = after.allWords
                /\ pdf_seenWords' = after.seenWords
                /\ pdf_pageNum' = pdf_pageNum + 1
                /\ IF pdf_pageNum = NumPages(pdf_file)
                   THEN /\ pdf_pc' = "done"
                        /\ pdf_finalWords' = finalWordsOf(after.allWords)
                        /\ pdf_result' = finishPdf(after.allWords)
                   ELSE UNCHANGED <<pdf_pc, pdf_finalWords, pdf_result>>
    /\ UNCHANGED pdf_file

PdfNext == (PdfStart \/ PdfPage) /\ UNCHANGED <<cm_vars, sf_vars, ex_vars, cw_vars, xt_vars, ap_vars, up_vars>>

PdfSpecInit == PdfInit /\ ColumnIdle /\ SheetIdle /\ ExportIdle /\ CellIdle /\ TwiceIdle /\ AppIdle /\ UploadIdle

SpecPdf == PdfSpecInit /\ [][PdfNext]_vars

\* the texts of the items of the one page of file whose rounded height is one
\* of the page's common sizes, trimmed, in page order
AcceptedSizeTexts(file) ==
    LET pageText == pageTextOf(PageItems(file, 1))
        commonSizes == commonSizesOf(pageText)
        sized == SelectSeq(pageText, LAMBDA item : Round(item.height) \in commonSizes)
    IN  [i \in 1..Len(sized) |-> sized[i].text]

\* a valid word: 2 to 20 letters, not of the exclusion set
IsValidWord(text) ==
    /\ Len(text) >= MinWordLength
    /\ Len(text) <= MaxWordLength
    /\ IsAlphabetic(text)
    /\ toLowerCase(text) \notin ExcludeWords

\* texts is 4 listed two-letter words, then 40 valid words no two of which are
\* the same ignoring case
FourThenForty(texts) ==
    /\ Len(texts) = PracticeCount + MaxWords
    /\ \A i \in 1..PracticeCount : Len(texts[i]) = 2 /\ IsPracticeWord(texts[i])
    /\ \A i \in (PracticeCount + 1)..Len(texts) : IsValidWord(texts[i])
    /\ \A i, j \in (PracticeCount + 1)..Len(texts) :
           i # j => toLowerCase(texts[i]) # toLowerCase(texts[j])

\* the result is the list of the words texts[5..44], in that order
ReturnsTheForty(result, texts) ==
    /\ result.status = "resolved"
    /\ Len(result.words) = MaxWords
    /\ \A k \in 1..MaxWords : result.words[k].item = texts[PracticeCount + k]

\* C5 as stated: on a one-page document whose accepted-size fragments are 4
\* listed two-letter common words followed by 40 distinct valid words, the
\* extraction returns exactly those 40 words in their order, without the 4
\* leading words.
C5_FortyWordsReturned ==
    (pdf_pc = "done" /\ pdf_file.read = "ok" /\ pdf_file.doc = "ok"
        /\ NumPages(pdf_file) = 1) =>
        LET texts == AcceptedSizeTexts(pdf_file)
        IN  FourThenForty(texts) => ReturnsTheForty(pdf_result, texts)

\* C5 amended: the same, for a page that meets no skip condition and whose 40
\* words include no listed function word.
C5_FortyWordsReturnedUnlessSkippedOrListed ==
    (pdf_pc = "done" /\ pdf_file.read = "ok" /\ pdf_file.doc = "ok"
        /\ NumPages(pdf_file) = 1) =>
        LET texts == AcceptedSizeTexts(pdf_file)
        IN  (/\ FourThenForty(texts)
             /\ skipReasonsOf(pageTextOf(PageItems(pdf_file, 1))) = {}
             /\ \A i \in (PracticeCount + 1)..Len(texts) : ~IsPracticeWord(texts[i]))
            => ReturnsTheForty(pdf_result, texts)

C5_Witness ==
    /\ pdf_pc = "done" /\ pdf_file.read = "ok" /\ pdf_file.doc = "ok"
    /\ NumPages(pdf_file) = 1
    /\ pdf_file.banner = "sizes"
    /\ LET texts == AcceptedSizeTexts(pdf_file)
       IN  /\ FourThenForty(texts)
           /\ skipReasonsOf(pageTextOf(PageItems(pdf_file, 1))) = {}
           /\ \A i \in (PracticeCount + 1)..Len(texts) : ~IsPracticeWord(texts[i])
           /\ ReturnsTheForty(pdf_result, texts)

\* C6: positional trimming of the n accepted candidates: for n > 44 the
\* candidates at positions 5..44, for 40 <= n <= 44 the last 40, for n < 40 all
\* n unchanged.
C6_PositionalTrimming ==
    (pdf_pc = "done" /\ pdf_finalWords # Null) =>
        LET n == Len(pdf_allWords)
        IN  /\ n > 44 => pdf_finalWords = [k \in 1..40 |-> pdf_allWords[k + 4]]
            /\ (n >= 40 /\ n <= 44) =>
                   pdf_finalWords = [k \in 1..40 |-> pdf_allWords[n - 40 + k]]
            /\ n < 40 => pdf_finalWords = pdf_allWords

\* 46 candidates: the first 4 and the last 2 are dropped
C6_Witness ==
    /\ pdf_pc = "done" /\ pdf_finalWords # Null
    /\ Len(pdf_allWords) = 46
    /\ Len(pdf_finalWords) = 40
    /\ pdf_finalWords[1] = pdf_allWords[5]
    /\ pdf_finalWords[40] = pdf_allWords[44]

\* C7: a successful extraction returns 20 to 40 words; the extraction fails,
\* with no word list, when no candidate was found or fewer than 20 words remain
\* after trimming; after the trimming branches there are at most 40 words, so
\* the cut to 40 removes none.
C7_WordCountBounds ==
    (pdf_pc = "done" /\ pdf_file.read = "ok"
        /\ pdf_file.doc \in {"ok", "noPages"}) =>
        /\ pdf_result.status = "resolved" =>
               /\ Len(pdf_result.words) >= 20 /\ Len(pdf_result.words) <= 40
               /\ pdf_finalWords # Null
               /\ Len(pdf_result.words) = Len(pdf_finalWords)
        /\ Len(pdf_allWords) = 0 =>
               pdf_result.status = "rejected" /\ pdf_result.words = Null
        /\ (pdf_finalWords # Null /\ Len(pdf_finalWords) < 20) =>
               pdf_result.status = "rejected" /\ pdf_result.words = Null
        /\ pdf_finalWords # Null =>
               Len(pdf_finalWords) <= 40 /\ capWords(pdf_finalWords) = pdf_finalWords

\* more than 40 candidates, trimmed to 40 and returned
C7_Witness ==
    /\ pdf_pc = "done"
    /\ pdf_result.status = "resolved"
    /\ Len(pdf_allWords) > 40
    /\ Len(pdf_result.words) = 40

\* the page meets a skip condition: a header phrase occurs more than once in
\* its text, its text is shorter than 50 characters, or the occurrences of
\* header phrases exceed 80% of its token count
MeetsSkipCondition(items) ==
    LET fullPageText == fullPageTextOf(pageTextOf(items))
    IN  \/ \E t \in 1..Len(headerTerms) : Occurrences(fullPageText, headerTerms[t]) > 1
        \/ Len(fullPageText) < MinPageChars
        \/ 10 * headerWordCountOf(fullPageText) > 8 * SplitOnSpaceLength(fullPageText)

\* C23: the turn of the page loop for a page that meets a skip condition
\* leaves the accepted-word list and the global seen-set exactly as they were,
\* and the loop goes on to the next page.
C23_SkippedPageChangesNothing ==
    [][(/\ pdf_pc = "pages" /\ pdf_file.doc = "ok"
        /\ MeetsSkipCondition(PageItems(pdf_file, pdf_pageNum))) =>
            /\ pdf_allWords' = pdf_allWords
            /\ pdf_seenWords' = pdf_seenWords
            /\ pdf_pageNum' = pdf_pageNum + 1
            /\ pdf_pageNum < NumPages(pdf_file) => pdf_pc' = "pages"]_vars

\* page 1 was skipped, with words of the accepted sizes on it, and page 2 was
\* processed after it
C23_Witness ==
    /\ pdf_pc = "done" /\ pdf_file.doc = "ok"
    /\ NumPages(pdf_file) = 2
    /\ MeetsSkipCondition(PageItems(pdf_file, 1))
    /\ ~MeetsSkipCondition(PageItems(pdf_file, 2))
    /\ Len(pdf_allWords) > 0
    /\ toLowerCase(trim(PageItems(pdf_file, 1)[2].str)) \notin pdf_seenWords

\* the rounded heights of the page that are among its two most frequent: fewer
\* than two rounded heights occur on more of its fragments
FrequentSizes(pageText) ==
    LET sizes == {Round(pageText[i].height) : i \in 1..Len(pageText)}
    IN  {s \in sizes :
            Cardinality({a \in sizes : SizeCount(pageText, a) > SizeCount(pageText, s)}) < 2}

\* the texts of the fragments of page pageNum whose rounded height is one of
\* the two most frequent of that page
FrequentSizeTexts(file, pageNum) ==
    LET pageText == pageTextOf(PageItems(file, pageNum))
        frequent == FrequentSizes(pageText)
    IN  {pageText[i].text : i \in {j \in 1..Len(pageText) :
                                      Round(pageText[j].height) \in frequent}}

\* C24: every word of the result of a successful extraction is the text of a
\* fragment whose rounded height is one of the two most frequent rounded
\* heights of its page, is 2 to 20 characters long, consists of letters only
\* and is not in the exclusion set, whatever its letter case.
C24_ResultWordsAreCandidates ==
    (pdf_pc = "done" /\ pdf_result.status = "resolved") =>
        LET texts == UNION {FrequentSizeTexts(pdf_file, p) : p \in 1..NumPages(pdf_file)}
        IN  \A k \in 1..Len(pdf_result.words) :
                /\ pdf_result.words[k].item \in texts
                /\ IsValidWord(pdf_result.words[k].item)

\* a document with valid words of a rare height at its top was accepted
C24_Witness ==
    /\ pdf_pc = "done" /\ pdf_result.status = "resolved"
    /\ pdf_file.banner = "sizes"
    /\ Len(pdf_result.words) >= MinWords

\* the valid texts of the fragments of the accepted sizes of page pageNum, in
\* page order; none for a page that is skipped
PageCandidates(file, pageNum) ==
    LET pageText == pageTextOf(PageItems(file, pageNum))
        commonSizes == commonSizesOf(pageText)
        sized == SelectSeq(pageText, LAMBDA item : Round(item.height) \in commonSizes)
        texts == [i \in 1..Len(sized) |-> sized[i].text]
    IN  IF MeetsSkipCondition(PageItems(file, pageNum)) THEN <<>>
        ELSE SelectSeq(texts, IsValidWord)

\* the same for the pages 1..pageNum, in page order
RECURSIVE CandidatesUpTo(_, _)
CandidatesUpTo(file, pageNum) ==
    IF pageNum = 0 THEN <<>>
    ELSE CandidatesUpTo(file, pageNum - 1) \o PageCandidates(file, pageNum)

\* the positions in texts of the first occurrences, ignoring case
FirstOccurrences(texts) ==
    LET lower == [i \in 1..Len(texts) |-> toLowerCase(texts[i])]
    IN  {j \in 1..Len(texts) : \A i \in 1..(j - 1) : lower[i] # lower[j]}

Range(list) == {list[k] : k \in 1..Len(list)}

\* C25: a candidate (a valid text met for the first time) is suppressed if and
\* only if it is a listed function word and fewer than 4 words have been
\* accepted when it is met, so that it would be among the first 4 accepted
\* words; a listed word met after 4 words have been accepted is kept and an
\* unlisted word is never suppressed.
C25_SuppressedIffListedAmongFirstFour ==
    (pdf_pc = "done" /\ pdf_file.read = "ok" /\ pdf_file.doc = "ok") =>
        LET texts == CandidatesUpTo(pdf_file, NumPages(pdf_file))
            first == FirstOccurrences(texts)
            accepted == Range(pdf_allWords)
            kept == {j \in first : texts[j] \in accepted}
        IN  \A j \in first :
                LET acceptedBefore == Cardinality({i \in kept : i < j})
                IN  /\ j \notin kept <=>
                           (IsPracticeWord(texts[j]) /\ acceptedBefore < PracticeCount)
                    /\ ~IsPracticeWord(texts[j]) => j \in kept
                    /\ (IsPracticeWord(texts[j]) /\ acceptedBefore >= PracticeCount)
                           => j \in kept

\* four listed words were suppressed at the head of the document and a listed
\* word met after 4 accepted words was kept
C25_Witness ==
    /\ pdf_pc = "done" /\ pdf_file.read = "ok" /\ pdf_file.doc = "ok"
    /\ pdf_file.lead = PracticeCount
    /\ pdf_file.oddKind = "common" /\ pdf_file.oddPos > PracticeCount + PracticeCount
    /\ OddText(pdf_file) \in Range(pdf_allWords)
    /\ \A i \in 1..PracticeCount : PracticeWords[i] \notin Range(pdf_allWords)
    /\ Len(pdf_allWords) > PracticeCount

\* the pages whose turn of the loop is over
PagesDone == IF pdf_pageNum = 0 THEN 0 ELSE pdf_pageNum - 1

\* C26: deduplication is global and follows the order of the document: after
\* each page, no two accepted candidates are equal ignoring case, whatever
\* pages they come from, and the accepted candidates are first occurrences (in
\* page order, then fragment order) among the valid texts of the pages done so
\* far, each in the letter case of that first occurrence, in the order of
\* their first occurrence.
C26_GlobalOrderedDeduplication ==
    (pdf_pc \in {"pages", "done"} /\ pdf_file.read = "ok" /\ pdf_file.doc = "ok") =>
        LET texts == CandidatesUpTo(pdf_file, PagesDone)
            first == FirstOccurrences(texts)
            kept == {j \in first : texts[j] \in Range(pdf_allWords)}
        IN  /\ \A a, b \in 1..Len(pdf_allWords) :
                   a # b => toLowerCase(pdf_allWords[a]) # toLowerCase(pdf_allWords[b])
            /\ Len(pdf_allWords) = Cardinality(kept)
            /\ \A j \in kept :
                   pdf_allWords[1 + Cardinality({i \in kept : i < j})] = texts[j]

\* the first word of page 1 stands on page 2 again in the other letter case:
\* the word of page 1 is the one accepted
C26_Witness ==
    /\ pdf_pc = "done" /\ pdf_file.read = "ok" /\ pdf_file.doc = "ok"
    /\ NumPages(pdf_file) = 2
    /\ pdf_file.oddKind = "dupe" /\ pdf_file.oddPos > pdf_file.break
    /\ Len(pdf_allWords) >= MinWords
    /\ pdf_allWords[1] = PdfWord(1)
    /\ OddText(pdf_file) = SwapCase(PdfWord(1))
    /\ OddText(pdf_file) \notin Range(pdf_allWords)

\* the positions in texts of the candidates suppressed as practice words: the
\* first occurrences of listed words met before 4 unlisted candidates
SuppressedIn(texts) ==
    LET first == FirstOccurrences(texts)
    IN  {j \in first :
            /\ IsPracticeWord(texts[j])
            /\ Cardinality({i \in first : i < j /\ ~IsPracticeWord(texts[i])})
                   < PracticeCount}

\* C30: a word suppressed as a practice word is recorded in the global
\* seen-set all the same: no occurrence of it on the same or a later page, in
\* any letter case, is accepted afterwards, and it is not in the result.
C30_SuppressedStaysSeen ==
    (pdf_pc \in {"pages", "done"} /\ pdf_file.read = "ok" /\ pdf_file.doc = "ok") =>
        LET texts == CandidatesUpTo(pdf_file, PagesDone)
        IN  \A j \in SuppressedIn(texts) :
                /\ toLowerCase(texts[j]) \in pdf_seenWords
                /\ \A k \in 1..Len(pdf_allWords) :
                       toLowerCase(pdf_allWords[k]) # toLowerCase(texts[j])
                /\ pdf_result.status = "resolved" =>
                       \A k \in 1..Len(pdf_result.words) :
                           toLowerCase(pdf_result.words[k].item) # toLowerCase(texts[j])

\* the first word of the document was suppressed; it stands again, in the
\* other letter case, after more than 4 accepted words, and was not accepted
C30_Witness ==
    /\ pdf_pc = "done" /\ pdf_file.read = "ok" /\ pdf_file.doc = "ok"
    /\ pdf_file.lead >= 1
    /\ pdf_file.oddKind = "dupe" /\ pdf_file.oddPos > MaxLead + PracticeCount
    /\ pdf_result.status = "resolved"
    /\ OddText(pdf_file) = SwapCase(PracticeWords[1])
    /\ PracticeWords[1] \in pdf_seenWords
    /\ OddText(pdf_file) \notin Range(pdf_allWords)
    /\ 1 \in SuppressedIn(CandidatesUpTo(pdf_file, NumPages(pdf_file)))

(***************************************************************************)
(* exportResultsToExcel                                                    *)
(*                                                                         *)
(* The text of an archive entry is modelled by the XML document it denotes *)
(* (or it is malformed, or empty).  A document is its rows in document     *)
(* order, with the workbookPr and calcPr elements of a workbook; a row is  *)
(* its number (r) and its cells in document order; a cell is its reference *)
(* (r), style (s), type (t) and child elements (kids).  An attribute that  *)
(* is not there is the empty string.                                       *)
(***************************************************************************)
TEMPLATE_CANDIDATES ==
    <<"moe-phonics-marking-sheet-template.xlsx",
      "Phonics-Check-Marking-Sheet-test-2025-10-25.xlsx">>

SHEET_PATHS == [cover |-> "xl/worksheets/sheet1.xml", marking |-> "xl/worksheets/sheet2.xml"]

WorkbookPath == "xl/workbook.xml"
CalcChainPath == "xl/calcChain.xml"
summarySheetPath == "xl/worksheets/sheet3.xml"

Paths == {SHEET_PATHS.cover, SHEET_PATHS.marking, WorkbookPath, CalcChainPath, summarySheetPath}

COVER_SHEET_CELLS ==
    [studentName |-> <<"C", "5">>, nsn |-> <<"E", "5">>, testDate |-> <<"C", "7">>, checkType |-> <<"E", "7">>,
     reasonNotDone |-> <<"C", "9">>, generalComment |-> <<"E", "9">>, adminChange |-> <<"C", "1", "5">>,
     adminChangeReason |-> <<"E", "1", "5">>, location |-> <<"C", "2", "4">>, deliveryMedium |-> <<"E", "2", "4">>,
     duration |-> <<"G", "2", "4">>]

MARKING_SHEET_CONFIG ==
    [setNameCell |-> <<"F", "2">>, startRow |-> 4,
     columns |-> [number |-> "B", item |-> "C", graphemeType |-> "D", correct |-> "E",
                  comment |-> "F"]]

MaxOutcomeRows == 40
DefaultCalcId == 191028
SummaryFirstRow == 4
SummaryLastRow == 16

\* the outcome of parseInt that is no number
NaN == -1

IsDigit(ch) == \E d \in 1..10 : Digits[d] = ch

DigitValue(ch) == (CHOOSE d \in 1..10 : Digits[d] = ch) - 1

RECURSIVE DigitsValue(_)
DigitsValue(digits) ==
    IF Len(digits) = 0 THEN 0
    ELSE 10 * DigitsValue(SubSeq(digits, 1, Len(digits) - 1)) + DigitValue(digits[Len(digits)])

\* parseInt(text, 10) of a text without sign or leading blank: the value of
\* its leading digits, NaN when it starts with none
parseInt(text) ==
    LET stops == {i \in 1..Len(text) : ~IsDigit(text[i])}
        count == IF stops = {} THEN Len(text)
                 ELSE (CHOOSE i \in stops : \A j \in stops : i <= j) - 1
    IN  IF count = 0 THEN NaN ELSE DigitsValue(SubSeq(text, 1, count))

\* Number.prototype.toString of the outcome of an addition to a parseInt
NumberToString(k) == IF k = NaN THEN <<"N", "a", "N">> ELSE NumToString(k)

\* text.replace(/[^0-9]/g, '')
DigitsOnly(text) == SelectSeq(text, IsDigit)

\* text.replace(/\s/g, '_')
ReplaceWhitespace(text) == [i \in 1..Len(text) |-> IF text[i] = " " THEN "_" ELSE text[i]]

\* value || '' for an optional text: <<>> when undefined, <<text>> when defined
OrEmpty(optional) == IF optional = <<>> THEN <<>> ELSE optional[1]

NoElement ==
    [present |-> FALSE, calcMode |-> "", calcCompleted |-> "", fullCalcOnLoad |-> "",
     calcId |-> <<>>, calcOnSave |-> "", forceFullCalc |-> "", other |-> ""]

\* the document DOMParser gives for a malformed text
ParserErrorDoc ==
    [parsererror |-> TRUE, namespace |-> TRUE, sheetData |-> FALSE, rows |-> <<>>,
     workbookPr |-> NoElement, calcPr |-> NoElement]

EmptyText == [kind |-> "empty", doc |-> ParserErrorDoc]
MalformedText == [kind |-> "malformed", doc |-> ParserErrorDoc]

\* parser.parseFromString(text, 'application/xml')
parseFromString(text) == IF text.kind = "xml" THEN text.doc ELSE ParserErrorDoc

\* serializer.serializeToString(doc)
serializeToString(doc) == [kind |-> "xml", doc |-> doc]

\* zip.file(path): the entry, present or not
NoEntry == [present |-> FALSE, readable |-> FALSE, text |-> EmptyText]

\* zip.file(path, text)
PutFile(zip, path, text) ==
    [zip EXCEPT ![path] = [present |-> TRUE, readable |-> TRUE, text |-> text]]

\* zip.remove(path)
RemoveFile(zip, path) == [zip EXCEPT ![path] = NoEntry]

\* new Date(date) for the texts of the model: an ISO date-time, or a text no
\* engine parses; NaN stands for the invalid date
IsIsoDate(date) ==
    /\ Len(date) >= 10
    /\ \A i \in {1, 2, 3, 4, 6, 7, 9, 10} : IsDigit(date[i])
    /\ date[5] = "-" /\ date[8] = "-"

\* toLocaleDateString('en-NZ'): day/month/year (the zone offset taken as 0)
toLocaleDateString(date) ==
    SubSeq(date, 9, 10) \o <<"/">> \o SubSeq(date, 6, 7) \o <<"/">> \o SubSeq(date, 1, 4)

\* formatDisplayDate in a browser whose time zone is moved between two calls of
\* the export, so that the second call shows the day after
formatDisplayDateZoneMoved(date) ==
    IF ~IsIsoDate(date) THEN date
    ELSE IF xt_call = 2 THEN <<"2", "6">> \o SubSeq(toLocaleDateString(date), 3, 10)
    ELSE toLocaleDateString(date)

formatDisplayDate(date) ==
    IF ~IsIsoDate(date) THEN date ELSE toLocaleDateString(date)

\* toISOString().split('T')[0]
IsoDay(date) == SubSeq(date, 1, 10)

cellReference(column, row) == <<column>> \o NumToString(row)

\* the position of the row in doc.rows (0: null)
findRowElement(doc, rowNumber) ==
    FirstTrue([i \in 1..Len(doc.rows) |-> doc.rows[i].r = rowNumber])

\* the position of the cell in row.cells (0: null)
findCellElement(row, reference) ==
    FirstTrue([i \in 1..Len(row.cells) |-> row.cells[i].r = reference])

\* clearCellContents that removes the style attribute as well
clearCellContentsAndStyle(cell) == [cell EXCEPT !.kids = <<>>, !.t = "", !.s = ""]

\* clearCellContents that removes the type attribute and leaves the children
clearCellContentsKeepsChildren(cell) == [cell EXCEPT !.t = ""]

clearCellContents(cell) == [cell EXCEPT !.kids = <<>>, !.t = ""]

\* a cell is named by the position of its row and its position in the row
NoCell == <<>>

setInlineStringValue(doc, cell, value) ==
    IF cell = NoCell THEN doc
    ELSE LET cleared == clearCellContents(doc.rows[cell[1]].cells[cell[2]])
             written == IF value = <<>> THEN cleared
                        ELSE IF doc.namespace
                        THEN [cleared EXCEPT !.t = "inlineStr",
                                             !.kids = Append(@, [tag |-> "is", text |-> value])]
                        ELSE cleared
         IN  [doc EXCEPT !.rows[cell[1]].cells[cell[2]] = written]

\* the document with the row and the cell made where missing, and the cell
upsertCell(doc, reference) ==
    LET rowNumber == parseInt(DigitsOnly(reference))
        found == findRowElement(doc, rowNumber)
    IN  IF ~doc.namespace \/ rowNumber = NaN THEN [doc |-> doc, cell |-> NoCell]
        ELSE IF found = 0 /\ ~doc.sheetData THEN [doc |-> doc, cell |-> NoCell]
        ELSE LET withRow ==
                     IF found = 0
                     THEN [doc EXCEPT !.rows = Append(@, [r |-> rowNumber, cells |-> <<>>])]
                     ELSE doc
                 row == IF found = 0 THEN Len(withRow.rows) ELSE found
                 foundCell == findCellElement(withRow.rows[row], reference)
                 withCell ==
                     IF foundCell = 0
                     THEN [withRow EXCEPT !.rows[row].cells =
                              Append(@, [r |-> reference, s |-> "", t |-> "", kids |-> <<>>])]
                     ELSE withRow
                 cell == IF foundCell = 0 THEN Len(withCell.rows[row].cells) ELSE foundCell
             IN  [doc |-> withCell, cell |-> <<row, cell>>]

\* setInlineStringValue(doc, upsertCell(doc, reference), value)
WriteCell(doc, reference, value) ==
    LET upserted == upsertCell(doc, reference)
    IN  setInlineStringValue(upserted.doc, upserted.cell, value)

\* the statements writes[first..last], each a WriteCell, in order: the second
\* half of them on the document the first half leaves (which is one value, h,
\* by the time the second is entered)
RECURSIVE WriteCells(_, _, _, _)
WriteCells(doc, writes, first, last) ==
    IF first > last THEN doc
    ELSE IF first = last THEN WriteCell(doc, writes[first].reference, writes[first].value)
    ELSE LET middle == (first + last) \div 2
             half == WriteCells(doc, writes, first, middle)
         IN  CHOOSE after \in {WriteCells(h, writes, middle + 1, last) : h \in {half}} : TRUE

\* updateCoverSheet without the three statements that blank a cell
CoverWritesNoBlanks(result) ==
    << [reference |-> COVER_SHEET_CELLS.studentName, value |-> result.studentName],
       [reference |-> COVER_SHEET_CELLS.nsn, value |-> result.nsn],
       [reference |-> COVER_SHEET_CELLS.testDate, value |-> formatDisplayDate(result.date)],
       [reference |-> COVER_SHEET_CELLS.checkType, value |-> result.checkType],
       [reference |-> COVER_SHEET_CELLS.reasonNotDone, value |-> OrEmpty(result.reasonNotDone)],
       [reference |-> COVER_SHEET_CELLS.generalComment, value |-> OrEmpty(result.overallComment)],
       [reference |-> COVER_SHEET_CELLS.location, value |-> result.location],
       [reference |-> COVER_SHEET_CELLS.deliveryMedium, value |-> <<"D", "i", "g", "i", "t", "a", "l">>] >>

CoverWrites(result) ==
    << [reference |-> COVER_SHEET_CELLS.studentName, value |-> result.studentName],
       [reference |-> COVER_SHEET_CELLS.nsn, value |-> result.nsn],
       [reference |-> COVER_SHEET_CELLS.testDate, value |-> formatDisplayDate(result.date)],
       [reference |-> COVER_SHEET_CELLS.checkType, value |-> result.checkType],
       [reference |-> COVER_SHEET_CELLS.reasonNotDone, value |-> OrEmpty(result.reasonNotDone)],
       [reference |-> COVER_SHEET_CELLS.generalComment, value |-> OrEmpty(result.overallComment)],
       [reference |-> COVER_SHEET_CELLS.adminChange, value |-> <<>>],
       [reference |-> COVER_SHEET_CELLS.adminChangeReason, value |-> <<>>],
       [reference |-> COVER_SHEET_CELLS.location, value |-> result.location],
       [reference |-> COVER_SHEET_CELLS.deliveryMedium, value |-> <<"D", "i", "g", "i", "t", "a", "l">>],
       [reference |-> COVER_SHEET_CELLS.duration, value |-> <<>>] >>

updateCoverSheet(doc, result) ==
    LET writes == CoverWrites(result)
    IN  WriteCells(doc, writes, 1, Len(writes))

mapResultOutcomeSwapped(outcome) ==
    IF outcome = "correct" THEN <<"N", "o", "t", " ", "y", "e", "t">>
    ELSE IF outcome = "incorrect" THEN <<"G", "o", "t", " ", "i", "t">>
    ELSE <<>>

mapResultOutcome(outcome) ==
    IF outcome = "correct" THEN <<"G", "o", "t", " ", "i", "t">>
    ELSE IF outcome = "incorrect" THEN <<"N", "o", "t", " ", "y", "e", "t">>
    ELSE <<>>

Min(a, b) == IF a < b THEN a ELSE b

\* the two statements of the first loop for one index
OutcomeWrites(result, index) ==
    LET rowNumber == MARKING_SHEET_CONFIG.startRow + index
        wordResult == result.results[index + 1]
    IN  << [reference |-> cellReference(MARKING_SHEET_CONFIG.columns.correct, rowNumber),
            value |-> mapResultOutcome(wordResult.result)],
           [reference |-> cellReference(MARKING_SHEET_CONFIG.columns.comment, rowNumber),
            value |-> OrEmpty(wordResult.note)] >>

\* the two statements of the second loop for one index
BlankWrites(index) ==
    LET rowNumber == MARKING_SHEET_CONFIG.startRow + index
    IN  << [reference |-> cellReference(MARKING_SHEET_CONFIG.columns.correct, rowNumber),
            value |-> <<>>],
           [reference |-> cellReference(MARKING_SHEET_CONFIG.columns.comment, rowNumber),
            value |-> <<>>] >>

\* the statements of updateMarkingSheet in the order they run
MarkingWrites(result, totalRows, blankTo) ==
    LET count == Len(result.results)
        blanks == IF count < blankTo THEN blankTo - count ELSE 0
    IN  << [reference |-> MARKING_SHEET_CONFIG.setNameCell, value |-> result.phonicsSetName] >>
        \o [k \in 1..(2 * totalRows) |-> OutcomeWrites(result, (k - 1) \div 2)[((k - 1) % 2) + 1]]
        \o [k \in 1..(2 * blanks) |-> BlankWrites(count + ((k - 1) \div 2))[((k - 1) % 2) + 1]]

updateMarkingSheetNoBlanking(doc, result) ==
    LET writes == MarkingWrites(result, Min(Len(result.results), MaxOutcomeRows), 0)
    IN  WriteCells(doc, writes, 1, Len(writes))

updateMarkingSheetNoCap(doc, result) ==
    LET writes == MarkingWrites(result, Len(result.results), MaxOutcomeRows)
    IN  WriteCells(doc, writes, 1, Len(writes))

updateMarkingSheet(doc, result) ==
    LET totalRows == Min(Len(result.results), MaxOutcomeRows)
        writes == MarkingWrites(result, totalRows, MaxOutcomeRows)
    IN  WriteCells(doc, writes, 1, Len(writes))

\* the archive after markWorkbookForRecalculation, which catches what it throws
markWorkbookForRecalculation(zip) ==
    LET workbookFile == zip[WorkbookPath]
        workbookDoc == parseFromString(workbookFile.text)
        calcId == LET attribute == IF workbookDoc.calcPr.calcId = <<>>
                                   THEN NumToString(DefaultCalcId)
                                   ELSE workbookDoc.calcPr.calcId
                      parsed == parseInt(attribute)
                  IN  IF parsed = NaN THEN NaN ELSE parsed + 1
        marked == [workbookDoc EXCEPT
                      !.workbookPr = [@ EXCEPT !.present = TRUE, !.calcMode = "auto",
                                                !.calcCompleted = "0", !.fullCalcOnLoad = "1"],
                      !.calcPr = [@ EXCEPT !.present = TRUE, !.calcId = NumberToString(calcId),
                                            !.calcOnSave = "1", !.fullCalcOnLoad = "1",
                                            !.forceFullCalc = "1"]]
    IN  IF ~workbookFile.present THEN zip
        ELSE IF ~workbookFile.readable THEN zip
        ELSE IF workbookDoc.parsererror THEN zip
        ELSE IF ~workbookDoc.namespace THEN zip
        ELSE PutFile(zip, WorkbookPath, serializeToString(marked))

\* the cells of the summary sheet the loop looks at: columns C to E of rows 4 to 16
SummaryReferences ==
    { cellReference(col, row) : col \in {"C", "D", "E"}, row \in SummaryFirstRow..SummaryLastRow }

\* the cell without its first <v> child when it has an <f> child
ClearCachedValue(cell) ==
    LET hasFormula == \E k \in 1..Len(cell.kids) : cell.kids[k].tag = "f"
        values == {k \in 1..Len(cell.kids) : cell.kids[k].tag = "v"}
        firstValue == CHOOSE k \in values : \A j \in values : k <= j
    IN  IF hasFormula /\ values # {}
        THEN [cell EXCEPT !.kids = SubSeq(@, 1, firstValue - 1)
                                       \o SubSeq(@, firstValue + 1, Len(@))]
        ELSE cell

\* querySelector('c[r="..."]') finds the first cell of the document with the
\* reference: the cell at position k of row i is looked at when no cell before
\* it in the document has its reference
clearSummaryValues(summaryDoc) ==
    LET isFirst(i, k) ==
            LET reference == summaryDoc.rows[i].cells[k].r
            IN  /\ \A j \in 1..(i - 1) : \A m \in 1..Len(summaryDoc.rows[j].cells) :
                       summaryDoc.rows[j].cells[m].r # reference
                /\ \A m \in 1..(k - 1) : summaryDoc.rows[i].cells[m].r # reference
    IN  [summaryDoc EXCEPT !.rows =
            [i \in 1..Len(summaryDoc.rows) |->
                [summaryDoc.rows[i] EXCEPT !.cells =
                    [k \in 1..Len(summaryDoc.rows[i].cells) |->
                        IF summaryDoc.rows[i].cells[k].r \in SummaryReferences /\ isFirst(i, k)
                        THEN ClearCachedValue(summaryDoc.rows[i].cells[k])
                        ELSE summaryDoc.rows[i].cells[k]]]]]

\* lines 564 to 592: calcChain.xml removed, the summary sheet's cached values cleared
forceRecalculation(zip) ==
    LET withoutChain == IF zip[CalcChainPath].present THEN RemoveFile(zip, CalcChainPath)
                        ELSE zip
        summaryFile == withoutChain[summarySheetPath]
    IN  IF ~summaryFile.present \/ ~summaryFile.readable \/ summaryFile.text.kind = "empty"
        THEN withoutChain
        ELSE PutFile(withoutChain, summarySheetPath,
                     serializeToString(clearSummaryValues(parseFromString(summaryFile.text))))

\* link.download
FileName(result) ==
    <<"P", "h", "o", "n", "i", "c", "s", "-", "C", "h", "e", "c", "k", "-", "M", "a", "r", "k", "i", "n", "g", "-", "S", "h", "e", "e", "t", "-">> \o ReplaceWhitespace(result.studentName) \o <<"-">>
        \o IsoDay(result.date) \o <<".", "x", "l", "s", "x">>
(***************************************************************************)
(* Specification SpecExport: exportResultsToExcel on bounded environments. *)
(*                                                                         *)
(* The environment says how the fetch of each template candidate goes,     *)
(* what the template holds (kind), the one thing wrong with the template   *)
(* or the record (fault), and the record: len outcomes whose results and   *)
(* notes go round from shift on, with or without the optional fields.      *)
(* Records of every length are exported from sound environments; faulty    *)
(* ones are met with a record of MaxOutcomes outcomes.                     *)
(***************************************************************************)
MaxOutcomes == 42
MaxTemplateRow == 46

FetchOutcomes == {"ok", "notOk", "throws", "badArchive"}

Faults ==
    { "none",
      "coverMissing", "coverEmpty", "coverMalformed", "coverUnreadable",
      "markingMissing", "markingMalformed",
      "workbookMissing", "workbookMalformed", "workbookBare", "workbookCalcIdNotANumber",
      "noCalcChain",
      "summaryMissing", "summaryMalformed",
      "generateThrows",
      "dateInvalid" }

Outcomes == <<"correct", "incorrect", "not_attempted">>

\* note undefined, a note, the empty note, another note
Notes == << <<>>, <<<<"s", "l", "o", "w">>>>, << <<>> >>, <<<<"s", "e", "l", "f", " ", "c", "o", "r", "r", "e", "c", "t", "e", "d">>>> >>

ResultsOf(env) ==
    [i \in 1..env.len |-> [result |-> Outcomes[((i + env.shift) % 3) + 1],
                           note |-> Notes[((i + env.shift) % 4) + 1]]]

\* the CheckResult handed to the export
RecordOf(env) ==
    [studentName |-> <<"A", "n", "a", " ", "L", "i">>,
     nsn |-> <<"1", "2", "3", "4">>,
     date |-> IF env.fault = "dateInvalid" THEN <<>> ELSE <<"2", "0", "2", "5", "-", "1", "0", "-", "2", "5", "T", "0", "9", ":", "3", "0", ":", "0", "0", ".", "0", "0", "0", "Z">>,
     checkType |-> <<"4", "0", "-", "w", "e", "e", "k">>,
     reasonNotDone |-> IF env.optional THEN <<<<"I", "l", "l">>>> ELSE <<>>,
     overallComment |-> IF env.optional THEN <<<<"G", "o", "o", "d">>>> ELSE <<>>,
     location |-> IF env.optional THEN <<"R", "o", "o", "m", " ", "4">> ELSE <<>>,
     phonicsSetName |-> <<"S", "e", "t", " ", "A">>,
     results |-> ResultsOf(env)]

StaleValue == [tag |-> "v", text |-> <<"7">>]
StaleFormula == [tag |-> "f", text |-> <<"B", "1">>]

StaleCell(reference) ==
    [r |-> reference, s |-> "3", t |-> "s", kids |-> <<StaleValue>>]

FormulaCell(reference) ==
    [r |-> reference, s |-> "4", t |-> "str", kids |-> <<StaleFormula, StaleValue>>]

SheetDoc(rows) ==
    [parsererror |-> FALSE, namespace |-> TRUE, sheetData |-> TRUE, rows |-> rows,
     workbookPr |-> NoElement, calcPr |-> NoElement]

\* the cover sheet of the template: every patched cell there with old content,
\* or few of them
CoverDoc(kind) ==
    IF kind = "full"
    THEN SheetDoc(<< [r |-> 5, cells |-> <<StaleCell(<<"B", "5">>), StaleCell(<<"C", "5">>), FormulaCell(<<"E", "5">>)>>],
                     [r |-> 7, cells |-> <<StaleCell(<<"C", "7">>), StaleCell(<<"E", "7">>)>>],
                     [r |-> 9, cells |-> <<FormulaCell(<<"C", "9">>), StaleCell(<<"E", "9">>)>>],
                     [r |-> 15, cells |-> <<StaleCell(<<"C", "1", "5">>), FormulaCell(<<"E", "1", "5">>)>>],
                     [r |-> 24, cells |-> <<StaleCell(<<"C", "2", "4">>), StaleCell(<<"E", "2", "4">>),
                                           StaleCell(<<"G", "2", "4">>)>>] >>)
    ELSE SheetDoc(<< [r |-> 5, cells |-> <<StaleCell(<<"B", "5">>)>>],
                     [r |-> 7, cells |-> <<FormulaCell(<<"C", "7">>)>>] >>)

\* the marking sheet of the template: rows 2 and 4..MaxTemplateRow with old
\* content in columns E and F, or a few rows without these columns and one
\* row below the outcome rows
MarkingDoc(kind) ==
    IF kind = "full"
    THEN SheetDoc(<< [r |-> 2, cells |-> <<StaleCell(<<"C", "2">>), StaleCell(<<"F", "2">>)>>] >>
                  \o [i \in 1..(MaxTemplateRow - 3) |->
                         [r |-> i + 3,
                          cells |-> << StaleCell(cellReference("C", i + 3)),
                                       StaleCell(cellReference("E", i + 3)),
                                       FormulaCell(cellReference("F", i + 3)) >>]])
    ELSE SheetDoc(<< [r |-> 2, cells |-> <<StaleCell(<<"C", "2">>)>>],
                     [r |-> 4, cells |-> <<StaleCell(<<"C", "4">>)>>],
                     [r |-> 5, cells |-> <<StaleCell(<<"C", "5">>), FormulaCell(<<"F", "5">>)>>],
                     [r |-> MaxTemplateRow,
                      cells |-> << StaleCell(cellReference("E", MaxTemplateRow)) >>] >>)

SummaryDoc ==
    SheetDoc(<< [r |-> 4, cells |-> <<FormulaCell(<<"C", "4">>), StaleCell(<<"D", "4">>)>>],
                [r |-> 5, cells |-> << [r |-> <<"E", "5">>, s |-> "4", t |-> "",
                                        kids |-> <<StaleFormula>>] >>],
                [r |-> 17, cells |-> <<FormulaCell(<<"C", "1", "7">>)>>] >>)

WorkbookDoc(fault) ==
    [parsererror |-> FALSE, namespace |-> TRUE, sheetData |-> FALSE, rows |-> <<>>,
     workbookPr |-> IF fault = "workbookBare" THEN NoElement
                    ELSE [NoElement EXCEPT !.present = TRUE, !.calcMode = "manual",
                                           !.other = "date1904"],
     calcPr |-> IF fault = "workbookBare" THEN NoElement
                ELSE [NoElement EXCEPT !.present = TRUE,
                                       !.calcId = IF fault = "workbookCalcIdNotANumber"
                                                  THEN <<"a", "u", "t", "o">> ELSE <<"1", "9", "1", "0", "2", "9">>]]

Entry(text) == [present |-> TRUE, readable |-> TRUE, text |-> text]

\* the archive JSZip.loadAsync gives for the template
TemplateZip(env) ==
    [path \in Paths |->
        CASE path = SHEET_PATHS.cover ->
                CASE env.fault = "coverMissing" -> NoEntry
                  [] env.fault = "coverEmpty" -> Entry(EmptyText)
                  [] env.fault = "coverMalformed" -> Entry(MalformedText)
                  [] env.fault = "coverUnreadable" ->
                        [present |-> TRUE, readable |-> FALSE, text |-> EmptyText]
                  [] OTHER -> Entry(serializeToString(CoverDoc(env.kind)))
          [] path = SHEET_PATHS.marking ->
                CASE env.fault = "markingMissing" -> NoEntry
                  [] env.fault = "markingMalformed" -> Entry(MalformedText)
                  [] OTHER -> Entry(serializeToString(MarkingDoc(env.kind)))
          [] path = WorkbookPath ->
                CASE env.fault = "workbookMissing" -> NoEntry
                  [] env.fault = "workbookMalformed" -> Entry(MalformedText)
                  [] OTHER -> Entry(serializeToString(WorkbookDoc(env.fault)))
          [] path = CalcChainPath ->
                IF env.fault = "noCalcChain" THEN NoEntry ELSE Entry(EmptyText)
          [] OTHER ->
                CASE env.fault = "summaryMissing" -> NoEntry
                  [] env.fault = "summaryMalformed" -> Entry(MalformedText)
                  [] OTHER -> Entry(serializeToString(SummaryDoc))]

NoZip == [path \in Paths |-> NoEntry]
NoDownload == [filename |-> <<>>, zip |-> NoZip]

ExportEnvs ==
    { env \in [first : FetchOutcomes, second : FetchOutcomes, fault : Faults,
               kind : {"full", "sparse"}, len : 0..MaxOutcomes, shift : 0..2,
               optional : BOOLEAN] :
        /\ env.first = "ok" => env.second = "ok"
        /\ env.fault # "none" => env.first = "ok"
        /\ (env.fault # "none" \/ env.first # "ok") =>
               (env.len = MaxOutcomes /\ env.shift = 0 /\ env.optional) }

ExportInit ==
    /\ ex_pc = "load"
    /\ ex_env \in ExportEnvs
    /\ ex_candidate = 1
    /\ ex_fetched = <<>>
    /\ ex_zip = NoZip
    /\ ex_download = NoDownload
    /\ ex_alerts = 0
    /\ ex_promise = "pending"

\* the catch block of exportResultsToExcel, after which the function returns
ExportFails ==
    /\ ex_pc' = "done"
    /\ ex_alerts' = ex_alerts + 1
    /\ ex_promise' = "resolved"

\* loadTemplate: one turn of the loop over the candidates
ExportLoad ==
    /\ ex_pc = "load"
    /\ ex_fetched' = Append(ex_fetched, TEMPLATE_CANDIDATES[ex_candidate])
    /\ LET outcome == IF ex_candidate = 1 THEN ex_env.first ELSE ex_env.second
       IN  IF outcome = "ok"
           THEN /\ ex_zip' = TemplateZip(ex_env)
                /\ ex_pc' = "sheets"
                /\ UNCHANGED <<ex_candidate, ex_alerts, ex_promise>>
           ELSE IF outcome = "badArchive" \/ ex_candidate = Len(TEMPLATE_CANDIDATES)
           THEN ExportFails /\ UNCHANGED <<ex_candidate, ex_zip>>
           ELSE /\ ex_candidate' = ex_candidate + 1
                /\ UNCHANGED <<ex_pc, ex_zip, ex_alerts, ex_promise>>
    /\ UNCHANGED <<ex_env, ex_download>>

\* lines 537 to 559: the two worksheets read, parsed, patched and put back
ExportSheets ==
    /\ ex_pc = "sheets"
    /\ LET coverFile == ex_zip[SHEET_PATHS.cover]
           markingFile == ex_zip[SHEET_PATHS.marking]
           coverDoc == parseFromString(coverFile.text)
           markingDoc == parseFromString(markingFile.text)
           result == RecordOf(ex_env)
       IN  IF \/ coverFile.present /\ ~coverFile.readable
              \/ markingFile.present /\ ~markingFile.readable
              \/ ~coverFile.present \/ coverFile.text.kind = "empty"
              \/ ~markingFile.present \/ markingFile.text.kind = "empty"
              \/ coverDoc.parsererror
              \/ markingDoc.parsererror
           THEN ExportFails /\ UNCHANGED ex_zip
           ELSE /\ ex_zip' = PutFile(
                        PutFile(ex_zip, SHEET_PATHS.cover,
                                serializeToString(updateCoverSheet(coverDoc, result))),
                        SHEET_PATHS.marking,
                        serializeToString(updateMarkingSheet(markingDoc, result)))
                /\ ex_pc' = "workbook"
                /\ UNCHANGED <<ex_alerts, ex_promise>>
    /\ UNCHANGED <<ex_env, ex_candidate, ex_fetched, ex_download>>

\* line 561
ExportWorkbook ==
    /\ ex_pc = "workbook"
    /\ ex_zip' = markWorkbookForRecalculation(ex_zip)
    /\ ex_pc' = "summary"
    /\ UNCHANGED <<ex_env, ex_candidate, ex_fetched, ex_download, ex_alerts, ex_promise>>

\* lines 564 to 592
ExportSummary ==
    /\ ex_pc = "summary"
    /\ ex_zip' = forceRecalculation(ex_zip)
    /\ ex_pc' = "generate"
    /\ UNCHANGED <<ex_env, ex_candidate, ex_fetched, ex_download, ex_alerts, ex_promise>>

\* lines 594 to 607: the archive generated, the file named, the download started
ExportGenerate ==
    /\ ex_pc = "generate"
    /\ LET result == RecordOf(ex_env)
       IN  IF ex_env.fault = "generateThrows" \/ ~IsIsoDate(result.date)
           THEN ExportFails /\ UNCHANGED ex_download
           ELSE /\ ex_download' = [filename |-> FileName(result), zip |-> ex_zip]
                /\ ex_pc' = "done"
                /\ ex_promise' = "resolved"
                /\ UNCHANGED ex_alerts
    /\ UNCHANGED <<ex_env, ex_candidate, ex_fetched, ex_zip>>

ExportNext ==
    /\ ExportLoad \/ ExportSheets \/ ExportWorkbook \/ ExportSummary \/ ExportGenerate
    /\ UNCHANGED <<cm_vars, sf_vars, pdf_vars, cw_vars, xt_vars, ap_vars, up_vars>>

ExportSpecInit == ExportInit /\ ColumnIdle /\ SheetIdle /\ PdfIdle /\ CellIdle /\ TwiceIdle /\ AppIdle /\ UploadIdle

SpecExport == ExportSpecInit /\ [][ExportNext]_vars

\* a step of the export that fails: a worksheet entry is missing, a text the
\* export parses is malformed, or the archive cannot be generated
StepFailure(env) ==
    env.fault \in {"coverMissing", "markingMissing", "coverMalformed", "markingMalformed",
                   "workbookMalformed", "summaryMalformed", "generateThrows"}

\* C8: when a step of the export fails (a worksheet entry missing, a parse
\* error in any text the export parses, archive generation failing), the
\* export is aborted: no download is started and exactly one notice is shown.
C8_FailureAborts ==
    (ex_pc = "done" /\ StepFailure(ex_env)) =>
        (ex_download = NoDownload /\ ex_alerts = 1)

\* an error is raised somewhere in the export: no template can be loaded, a
\* worksheet is missing, empty, unreadable or malformed, the workbook text is
\* malformed, the archive cannot be generated, or the date cannot be parsed
ErrorRaised(env) ==
    \/ env.first # "ok" /\ env.second # "ok"
    \/ env.first = "badArchive"
    \/ env.fault \in {"coverMissing", "coverEmpty", "coverMalformed", "coverUnreadable",
                      "markingMissing", "markingMalformed", "workbookMalformed",
                      "generateThrows", "dateInvalid"}

\* C9: the export never passes a failure on to its caller: whatever the record
\* and whatever fails, the returned promise resolves and the user sees a notice.
C9_NeverPropagates ==
    ex_pc = "done" =>
        /\ ex_promise = "resolved"
        /\ ErrorRaised(ex_env) => ex_alerts >= 1

\* the one row numbered rowNumber has one cell column+rowNumber, and it holds
\* the text value (blank: no content and no type)
Holds(doc, column, rowNumber, value) ==
    LET reference == cellReference(column, rowNumber)
        rows == {i \in 1..Len(doc.rows) : doc.rows[i].r = rowNumber}
    IN  /\ Cardinality(rows) = 1
        /\ \A i \in rows :
               LET cells == {k \in 1..Len(doc.rows[i].cells) :
                                doc.rows[i].cells[k].r = reference}
               IN  /\ Cardinality(cells) = 1
                   /\ \A k \in cells :
                          LET cell == doc.rows[i].cells[k]
                          IN  IF value = <<>> THEN cell.kids = <<>> /\ cell.t = ""
                              ELSE /\ cell.t = "inlineStr"
                                   /\ cell.kids = <<[tag |-> "is", text |-> value]>>

\* the rows of doc numbered above the last outcome row
RowsBelowOutcomes(doc) ==
    SelectSeq(doc.rows, LAMBDA row : row.r >= MARKING_SHEET_CONFIG.startRow + MaxOutcomeRows)

MappedResult(outcome) ==
    CASE outcome = "correct" -> <<"G", "o", "t", " ", "i", "t">>
      [] outcome = "incorrect" -> <<"N", "o", "t", " ", "y", "e", "t">>
      [] OTHER -> <<>>

\* the marking sheet has been patched and put back into the archive
MarkingPatched == ex_pc \in {"workbook", "summary", "generate"}

\* C10: after the marking-sheet patch, for every slot i in 0..39 (row 4 + i):
\* with i below the number of outcomes, column E holds the mapped result of
\* outcome i and column F its note or blank; otherwise E and F are blank.
\* Outcomes past the 40th are written to no row.
C10_MarkingSlots ==
    MarkingPatched =>
        LET doc == parseFromString(ex_zip[SHEET_PATHS.marking].text)
            results == ResultsOf(ex_env)
        IN  /\ \A i \in 0..39 :
                   IF i < Len(results)
                   THEN /\ Holds(doc, "E", 4 + i, MappedResult(results[i + 1].result))
                        /\ Holds(doc, "F", 4 + i,
                                 IF results[i + 1].note = <<>> THEN <<>>
                                 ELSE results[i + 1].note[1])
                   ELSE Holds(doc, "E", 4 + i, <<>>) /\ Holds(doc, "F", 4 + i, <<>>)
            /\ RowsBelowOutcomes(doc) = RowsBelowOutcomes(MarkingDoc(ex_env.kind))

\* more than 40 outcomes, old content in the template: slot 39 is written,
\* row 44 keeps what the template held
C10_Witness ==
    /\ MarkingPatched
    /\ ex_env.kind = "full"
    /\ ex_env.len > MaxOutcomeRows
    /\ LET doc == parseFromString(ex_zip[SHEET_PATHS.marking].text)
       IN  /\ Holds(doc, "E", 43, MappedResult(ResultsOf(ex_env)[40].result))
           /\ ~Holds(doc, "E", 44, <<>>)

\* the date of the model's records as the cover sheet shows it: day/month/year,
\* and the text itself when it is no date
DisplayDate(date) ==
    IF date = <<"2", "0", "2", "5", "-", "1", "0", "-", "2", "5", "T", "0", "9", ":", "3", "0", ":", "0", "0", ".", "0", "0", "0", "Z">> THEN <<"2", "5", "/", "1", "0", "/", "2", "0", "2", "5">> ELSE date

\* C11: after the cover-sheet patch, C5 holds the student name, E5 the NSN, C7
\* the display date, E7 the check type, C9 the reason-not-done or blank, E9
\* the overall comment or blank, C24 the location or blank, E24 the text
\* "Digital", and C15, E15 and G24 are blank, whatever the record and whatever
\* the template held there.
C11_CoverCells ==
    MarkingPatched =>
        LET doc == parseFromString(ex_zip[SHEET_PATHS.cover].text)
            record == RecordOf(ex_env)
        IN  /\ Holds(doc, "C", 5, record.studentName)
            /\ Holds(doc, "E", 5, record.nsn)
            /\ Holds(doc, "C", 7, DisplayDate(record.date))
            /\ Holds(doc, "E", 7, record.checkType)
            /\ Holds(doc, "C", 9, IF record.reasonNotDone = <<>> THEN <<>>
                                  ELSE record.reasonNotDone[1])
            /\ Holds(doc, "E", 9, IF record.overallComment = <<>> THEN <<>>
                                  ELSE record.overallComment[1])
            /\ Holds(doc, "C", 24, record.location)
            /\ Holds(doc, "E", 24, <<"D", "i", "g", "i", "t", "a", "l">>)
            /\ Holds(doc, "C", 15, <<>>)
            /\ Holds(doc, "E", 15, <<>>)
            /\ Holds(doc, "G", 24, <<>>)

\* a record without the optional fields on a template that held a formula in
\* C9 and in E15 and a value in G24: the three are blank, E24 reads "Digital"
C11_Witness ==
    /\ MarkingPatched
    /\ ex_env.kind = "full"
    /\ ~ex_env.optional
    /\ CoverDoc("full").rows[3].cells[1] = FormulaCell(<<"C", "9">>)
    /\ LET doc == parseFromString(ex_zip[SHEET_PATHS.cover].text)
       IN  /\ Holds(doc, "C", 9, <<>>)
           /\ Holds(doc, "E", 15, <<>>)
           /\ Holds(doc, "G", 24, <<>>)
           /\ Holds(doc, "E", 24, <<"D", "i", "g", "i", "t", "a", "l">>)
           /\ Holds(doc, "C", 7, <<"2", "5", "/", "1", "0", "/", "2", "0", "2", "5">>)

\* the calc id the template states, NaN when it states none that is a number
TemplateCalcId(env) ==
    LET entry == TemplateZip(env)[WorkbookPath]
        calcId == parseFromString(entry.text).calcPr.calcId
    IN  IF ~entry.present \/ calcId = <<>> THEN NaN ELSE parseInt(calcId)

\* C14: every file a successful export produces forces recalculation on open:
\* its workbook properties have calcMode auto, fullCalcOnLoad 1 and
\* forceFullCalc 1, its calc id is the template's plus one, and the archive
\* has no xl/calcChain.xml entry.
C14_ForcesRecalculation ==
    ex_download # NoDownload =>
        LET workbook == parseFromString(ex_download.zip[WorkbookPath].text)
        IN  /\ ex_download.zip[WorkbookPath].present
            /\ workbook.workbookPr.calcMode = "auto"
            /\ workbook.workbookPr.fullCalcOnLoad = "1"
            /\ workbook.calcPr.forceFullCalc = "1"
            /\ TemplateCalcId(ex_env) # NaN =>
                   workbook.calcPr.calcId = NumToString(TemplateCalcId(ex_env) + 1)
            /\ ~ex_download.zip[CalcChainPath].present

\* loadTemplate has returned or thrown
LoadOver == ex_pc # "load"

\* loadTemplate has thrown: the export is over and no archive was ever loaded
LoadFailed == ex_pc = "done" /\ ex_zip = NoZip

\* C15: template loading tries the candidates in their listed order, uses the
\* first that loads without touching the later ones, and fails only if every
\* candidate fails: whatever the reason a candidate fails (a response that is
\* not OK, a fetch that throws, an archive that cannot be opened), the next
\* candidate is tried before loading fails.
C15_FallsThrough ==
    LoadOver =>
        /\ ex_fetched = SubSeq(TEMPLATE_CANDIDATES, 1, Len(ex_fetched))
        /\ ex_env.first = "ok" => ex_fetched = <<TEMPLATE_CANDIDATES[1]>>
        /\ LoadFailed =>
               /\ ex_fetched = TEMPLATE_CANDIDATES
               /\ ex_env.first # "ok" /\ ex_env.second # "ok"

(***************************************************************************)
(* Specification SpecCell: a value written to a coordinate of a worksheet  *)
(* document, and further values written to the same coordinate after it.   *)
(*                                                                         *)
(* The document holds at C5 a cell of each kind (a cached value, a formula *)
(* with its cached value, the text of an earlier export, a styled cell     *)
(* without content) or no cell there; E9 holds a formula; row 43 is not    *)
(* there.                                                                  *)
(***************************************************************************)
MaxWrites == 3

CellKinds == {"value", "formula", "inline", "styled", "twoChildren", "absent"}

InlineCell(reference, text) ==
    [r |-> reference, s |-> "2", t |-> "inlineStr", kids |-> <<[tag |-> "is", text |-> text]>>]

CellDoc(kind) ==
    SheetDoc(<< [r |-> 4, cells |-> <<StaleCell(<<"C", "4">>)>>],
                [r |-> 5,
                 cells |-> <<StaleCell(<<"B", "5">>)>>
                           \o (CASE kind = "value" -> <<StaleCell(<<"C", "5">>)>>
                                 [] kind = "formula" -> <<FormulaCell(<<"C", "5">>)>>
                                 [] kind = "inline" -> <<InlineCell(<<"C", "5">>, <<"N", "o", "t", " ", "y", "e", "t">>)>>
                                 [] kind = "styled" ->
                                        << [r |-> <<"C", "5">>, s |-> "7", t |-> "", kids |-> <<>>] >>
                                 [] kind = "twoChildren" ->
                                        << [r |-> <<"C", "5">>, s |-> "", t |-> "e",
                                            kids |-> <<StaleFormula, StaleValue, StaleValue>>] >>
                                 [] OTHER -> <<>>)
                           \o <<StaleCell(<<"D", "5">>)>>],
                [r |-> 9, cells |-> <<FormulaCell(<<"E", "9">>)>>] >>)

CellReferences == {<<"C", "5">>, <<"E", "9">>, <<"F", "4", "3">>}

CellValues == {<<>>, <<"G", "o", "t", " ", "i", "t">>, <<"N", "o", "t", " ", "y", "e", "t">>, <<" ">>}

CellInit ==
    /\ cw_pc = "ready"
    /\ cw_doc \in {CellDoc(kind) : kind \in CellKinds}
    /\ cw_reference \in CellReferences
    /\ cw_values = <<>>
    /\ cw_before = <<>>

\* setInlineStringValue(doc, upsertCell(doc, reference), value)
CellWrite ==
    /\ cw_pc \in {"ready", "written"}
    /\ Len(cw_values) < MaxWrites
    /\ \E value \in CellValues :
           /\ cw_doc' = WriteCell(cw_doc, cw_reference, value)
           /\ cw_values' = Append(cw_values, value)
    /\ cw_before' = cw_doc
    /\ cw_pc' = "written"
    /\ UNCHANGED cw_reference

CellNext == CellWrite /\ UNCHANGED <<cm_vars, sf_vars, pdf_vars, ex_vars, xt_vars, ap_vars, up_vars>>

CellSpecInit == CellInit /\ ColumnIdle /\ SheetIdle /\ PdfIdle /\ ExportIdle /\ TwiceIdle /\ AppIdle /\ UploadIdle

SpecCell == CellSpecInit /\ [][CellNext]_vars

\* the cells of doc with the reference, in document order
CellsAt(doc, reference) ==
    LET RowCells(i) == SelectSeq(doc.rows[i].cells, LAMBDA cell : cell.r = reference)
        RECURSIVE Upto(_)
        Upto(i) == IF i = 0 THEN <<>> ELSE Upto(i - 1) \o RowCells(i)
    IN  Upto(Len(doc.rows))

\* C12: a cell write is an idempotent overwrite.  After value v is written to
\* a coordinate the cell there depends on v alone: for empty v it has no child
\* and no type attribute, for non-empty v it has type inlineStr and one text
\* payload, v.  Writing the value just written again leaves the document as it
\* was.
C12_IdempotentOverwrite ==
    cw_pc = "written" =>
        LET value == cw_values[Len(cw_values)]
            cells == CellsAt(cw_doc, cw_reference)
        IN  /\ Len(cells) = 1
            /\ IF value = <<>>
               THEN cells[1].kids = <<>> /\ cells[1].t = ""
               ELSE /\ cells[1].t = "inlineStr"
                    /\ cells[1].kids = <<[tag |-> "is", text |-> value]>>
            /\ (Len(cw_values) >= 2 /\ cw_values[Len(cw_values) - 1] = value) =>
                   cw_doc = cw_before

\* "Got it" written twice over a formula with its cached value
C12_Witness ==
    /\ cw_pc = "written"
    /\ cw_reference = <<"C", "5">>
    /\ cw_values = <<<<"G", "o", "t", " ", "i", "t">>, <<"G", "o", "t", " ", "i", "t">>>>
    /\ cw_doc = cw_before
    /\ CellsAt(cw_doc, <<"C", "5">>) = << [r |-> <<"C", "5">>, s |-> "4", t |-> "inlineStr",
                                   kids |-> <<[tag |-> "is", text |-> <<"G", "o", "t", " ", "i", "t">>]>>] >>

(***************************************************************************)
(* Specification SpecExportTwice: the export of SpecExport, called again   *)
(* with the same record in the same environment once the first call has    *)
(* returned.                                                               *)
(***************************************************************************)
ExportTwiceInit ==
    /\ ExportInit
    /\ xt_call = 1
    /\ xt_first = NoDownload

\* the Export Excel button of the summary view pressed again: a new call, whose
\* archive, parser and serializer are its own (lines 533 to 535)
ExportAgain ==
    /\ ex_pc = "done"
    /\ xt_call = 1
    /\ xt_call' = 2
    /\ xt_first' = ex_download
    /\ ex_pc' = "load"
    /\ ex_candidate' = 1
    /\ ex_fetched' = <<>>
    /\ ex_zip' = NoZip
    /\ ex_download' = NoDownload
    /\ ex_promise' = "pending"
    /\ UNCHANGED <<ex_env, ex_alerts>>

ExportTwiceNext ==
    /\ \/ /\ ExportLoad \/ ExportSheets \/ ExportWorkbook \/ ExportSummary \/ ExportGenerate
          /\ UNCHANGED xt_vars
       \/ ExportAgain
    /\ UNCHANGED <<cm_vars, sf_vars, pdf_vars, cw_vars, ap_vars, up_vars>>

ExportTwiceSpecInit == ExportTwiceInit /\ ColumnIdle /\ SheetIdle /\ PdfIdle /\ CellIdle /\ AppIdle /\ UploadIdle

SpecExportTwice == ExportTwiceSpecInit /\ [][ExportTwiceNext]_vars

\* the coordinates the export writes to
CoverReferences == {<<"C", "5">>, <<"E", "5">>, <<"C", "7">>, <<"E", "7">>, <<"C", "9">>, <<"E", "9">>, <<"C", "1", "5">>, <<"E", "1", "5">>, <<"C", "2", "4">>, <<"E", "2", "4">>, <<"G", "2", "4">>}

MarkingReferences ==
    {<<"F", "2">>} \cup { cellReference(column, row) : column \in {"E", "F"}, row \in 4..43 }

\* what the cells of doc at the reference hold: type and children of each
ValuesAt(doc, reference) ==
    LET cells == CellsAt(doc, reference)
    IN  [k \in 1..Len(cells) |-> [t |-> cells[k].t, kids |-> cells[k].kids]]

BothDownloaded ==
    /\ xt_call = 2
    /\ ex_pc = "done"
    /\ xt_first # NoDownload
    /\ ex_download # NoDownload

KeepsAllBut(doc, template, patched) ==
    /\ Len(doc.rows) >= Len(template.rows)
    /\ \A i \in 1..Len(template.rows) :
           /\ doc.rows[i].r = template.rows[i].r
           /\ Len(doc.rows[i].cells) >= Len(template.rows[i].cells)
           /\ \A k \in 1..Len(template.rows[i].cells) :
                  LET was == template.rows[i].cells[k]
                      is == doc.rows[i].cells[k]
                  IN  /\ is.r = was.r
                      /\ is.s = was.s
                      /\ was.r \notin patched => is = was
    /\ \A i, j \in 1..Len(doc.rows) : doc.rows[i].r = doc.rows[j].r => i = j
    /\ \A i \in 1..Len(doc.rows) :
           /\ \A k, m \in 1..Len(doc.rows[i].cells) :
                  doc.rows[i].cells[k].r = doc.rows[i].cells[m].r => k = m
           /\ \A k \in (IF i <= Len(template.rows) THEN Len(template.rows[i].cells) ELSE 0) + 1
                           ..Len(doc.rows[i].cells) :
                  doc.rows[i].cells[k].r \in patched

\* C19: the export changes only the cells at the fixed coordinates (cover: C5,
\* E5, C7, E7, C9, E9, C15, E15, C24, E24, G24; marking: F2, E4..E43,
\* F4..F43): every other cell of the two worksheets keeps its content, type,
\* formula and style, each patched cell keeps its style, and no row or cell
\* the template had is duplicated or removed.
C19_OnlyFixedCoordinates ==
    MarkingPatched =>
        /\ KeepsAllBut(parseFromString(ex_zip[SHEET_PATHS.cover].text),
                       CoverDoc(ex_env.kind), CoverReferences)
        /\ KeepsAllBut(parseFromString(ex_zip[SHEET_PATHS.marking].text),
                       MarkingDoc(ex_env.kind), MarkingReferences)

\* a full template patched with the outcomes of a record: in row 5 of the
\* marking sheet C5 is as it was, F5 has lost its formula and kept its style,
\* and row 44 is as it was
C19_Witness ==
    /\ MarkingPatched
    /\ ex_env.kind = "full"
    /\ ex_env.len >= 2
    /\ LET doc == parseFromString(ex_zip[SHEET_PATHS.marking].text)
       IN  /\ doc.rows[3].r = 5
           /\ doc.rows[3].cells[1] = StaleCell(<<"C", "5">>)
           /\ doc.rows[3].cells[3].r = <<"F", "5">>
           /\ doc.rows[3].cells[3].s = "4"
           /\ doc.rows[3].cells[3] # FormulaCell(<<"F", "5">>)
           /\ doc.rows[42] = MarkingDoc("full").rows[42]
           /\ doc.rows[42].r = 44

(***************************************************************************)
(* App (src/App.tsx) with the components it shows: NewCheck, Assessment,   *)
(* Summary and the term-set list of UploadMaterials.                       *)
(*                                                                         *)
(* An id is the number Date.now() gave when it was made.  An optional      *)
(* value is <<>> when undefined and <<value>> otherwise.  A JavaScript     *)
(* number that is the outcome of a division is the pair of its numerator   *)
(* and denominator.                                                        *)
(***************************************************************************)
MaxSetWords == 6
MaxClock == 4
StopAfterIncorrect == 5

Quotient(num, den) == [num |-> num, den |-> den]

\* the position of the set with the id in sets (0: undefined)
findSet(sets, id) == FirstTrue([i \in 1..Len(sets) |-> sets[i].id = id])

\* paddedResults.filter(r => r.result === 'correct').length
correctCount(results) == Cardinality({i \in 1..Len(results) : results[i].result = "correct"})

\* the count over the outcomes with result incorrect
incorrectCount(results) == Cardinality({i \in 1..Len(results) : results[i].result = "incorrect"})

\* the percentage against the 40 words of a full check
percentageOfForty(count, words) == Quotient(count * 100, 40)

\* (correctCount / phonicsSet.words.length) * 100
percentageOf(count, words) == Quotient(count * 100, Len(words))

\* results handed on without the padding loop
paddedResultsOmitted(results, words) == results

\* lines 51 to 58 of App.tsx: not_attempted for the words from results.length on
paddedResults(results, words) ==
    results \o [k \in 1..(Len(words) - Len(results)) |->
                   [word |-> words[Len(results) + k], result |-> "not_attempted",
                    note |-> "Assessment stopped early"]]

\* mutant: the trailing run is not counted
consecutiveIncorrectOmitted(results) == 0

\* consecutiveIncorrect of Assessment: the length of the trailing run of incorrect
consecutiveIncorrect(results) ==
    LET others == {i \in 1..Len(results) : results[i].result # "incorrect"}
    IN  IF others = {} THEN Len(results)
        ELSE Len(results) - (CHOOSE i \in others : \A j \in others : j <= i)

\* the term sets uploads give: a short one, and one of MaxSetWords words
ShortWords == << [item |-> "at", graphemeType |-> "VC"], [item |-> "in", graphemeType |-> "VC"] >>

LongItems == <<"sat", "pin", "chop", "ship", "thin", "frog", "lamp", "nest", "jump", "wish">>

LongWords == [i \in 1..MaxSetWords |-> [item |-> LongItems[i], graphemeType |-> "N/A"]]

WordLists == {ShortWords, LongWords}

Pupils == [1..MaxSetWords -> {"correct", "incorrect"}]

TypedNotes == {"slow"}

TypedComments == {"", "Good"}

AppInit ==
    /\ ap_view = "dashboard"
    /\ ap_phonicsSets = << [id |-> 1, words |-> ShortWords], [id |-> 2, words |-> LongWords] >>
    /\ ap_checkResults = <<>>
    /\ ap_currentCheck = <<>>
    /\ ap_now = 2
    /\ ap_pupil \in Pupils
    /\ ap_uploaded = {ap_phonicsSets[i] : i \in 1..Len(ap_phonicsSets)}
    /\ as_wordIndex = 0
    /\ as_results = <<>>
    /\ as_note = ""
    /\ su_finalResult = <<>>

\* Assessment is not shown: its state is gone
AssessmentUnmounted == as_wordIndex' = 0 /\ as_results' = <<>> /\ as_note' = ""

\* onNavigate of Header
Navigate ==
    /\ ap_view # "dashboard"
    /\ ap_view' = "dashboard"
    /\ AssessmentUnmounted
    /\ su_finalResult' = <<>>
    /\ UNCHANGED <<ap_phonicsSets, ap_checkResults, ap_currentCheck, ap_now, ap_pupil, ap_uploaded>>

handleStartNewCheck ==
    /\ ap_view = "dashboard"
    /\ ap_view' = "newCheck"
    /\ UNCHANGED <<ap_phonicsSets, ap_checkResults, ap_currentCheck, ap_now, ap_pupil, ap_uploaded,
                   as_wordIndex, as_results, as_note, su_finalResult>>

\* onUpload of Dashboard
OpenUpload ==
    /\ ap_view = "dashboard"
    /\ ap_view' = "upload"
    /\ UNCHANGED <<ap_phonicsSets, ap_checkResults, ap_currentCheck, ap_now, ap_pupil, ap_uploaded,
                   as_wordIndex, as_results, as_note, su_finalResult>>

\* onUploadSuccess of UploadMaterials, with the set handleUpload has made
UploadSuccess ==
    /\ ap_view = "upload"
    /\ ap_now < MaxClock
    /\ \E words \in WordLists :
           LET newSet == [id |-> ap_now + 1, words |-> words]
           IN  /\ ap_phonicsSets' = Append(ap_phonicsSets, newSet)
               /\ ap_uploaded' = ap_uploaded \cup {newSet}
    /\ ap_now' = ap_now + 1
    /\ ap_view' = "dashboard"
    /\ UNCHANGED <<ap_checkResults, ap_currentCheck, ap_pupil, as_wordIndex, as_results, as_note,
                   su_finalResult>>

handleDeleteSet ==
    /\ ap_view = "upload"
    /\ \E i \in 1..Len(ap_phonicsSets) :
           ap_phonicsSets' = SelectSeq(ap_phonicsSets, LAMBDA s : s.id # ap_phonicsSets[i].id)
    /\ UNCHANGED <<ap_view, ap_checkResults, ap_currentCheck, ap_now, ap_pupil, ap_uploaded,
                   as_wordIndex, as_results, as_note, su_finalResult>>

\* onCancel of NewCheck and of UploadMaterials
Cancel ==
    /\ ap_view \in {"newCheck", "upload"}
    /\ ap_view' = "dashboard"
    /\ UNCHANGED <<ap_phonicsSets, ap_checkResults, ap_currentCheck, ap_now, ap_pupil, ap_uploaded,
                   as_wordIndex, as_results, as_note, su_finalResult>>

\* handleSubmit of NewCheck with a term set selected, and handleCreateCheck
handleCreateCheck ==
    /\ ap_view = "newCheck"
    /\ ap_now < MaxClock
    /\ \E i \in 1..Len(ap_phonicsSets) :
           ap_currentCheck' = << [id |-> ap_now + 1, phonicsSetId |-> ap_phonicsSets[i].id,
                                  results |-> <<>>, status |-> "in_progress",
                                  overallComment |-> <<>>, score |-> 0,
                                  percentage |-> Quotient(0, 1)] >>
    /\ ap_now' = ap_now + 1
    /\ ap_view' = "assessment"
    /\ AssessmentUnmounted
    /\ UNCHANGED <<ap_phonicsSets, ap_checkResults, ap_pupil, ap_uploaded, su_finalResult>>

\* the note field of Assessment typed into, before the first word is marked
TypeNote ==
    /\ ap_view = "assessment"
    /\ as_wordIndex = 0
    /\ as_note = ""
    /\ \E note \in TypedNotes : as_note' = note
    /\ UNCHANGED <<ap_view, ap_phonicsSets, ap_checkResults, ap_currentCheck, ap_now, ap_pupil,
                   ap_uploaded, as_wordIndex, as_results, su_finalResult>>

\* handleAssessmentComplete(results, comment), called by handleMark
handleAssessmentComplete(results, comment) ==
    LET found == IF ap_currentCheck = <<>> THEN 0
                 ELSE findSet(ap_phonicsSets, ap_currentCheck[1].phonicsSetId)
    IN  IF found = 0
        THEN UNCHANGED <<ap_view, ap_currentCheck, as_wordIndex, as_results, as_note,
                         su_finalResult>>
        ELSE LET words == ap_phonicsSets[found].words
                 padded == paddedResults(results, words)
                 finalCheck == [ap_currentCheck[1] EXCEPT
                                   !.results = padded,
                                   !.overallComment = <<comment>>,
                                   !.status = "completed",
                                   !.score = correctCount(padded),
                                   !.percentage = percentageOf(correctCount(padded), words)]
             IN  /\ ap_currentCheck' = <<finalCheck>>
                 /\ ap_view' = "summary"
                 /\ su_finalResult' = <<finalCheck>>
                 /\ AssessmentUnmounted

\* handleMark of Assessment with the result the pupil gets for the word shown
handleMark ==
    /\ ap_view = "assessment"
    /\ ap_currentCheck # <<>>
    /\ LET found == findSet(ap_phonicsSets, ap_currentCheck[1].phonicsSetId)
       IN  /\ found # 0
           /\ LET words == ap_phonicsSets[found].words
                  result == ap_pupil[as_wordIndex + 1]
                  newResult == [word |-> words[as_wordIndex + 1], result |-> result,
                                note |-> as_note]
                  newResults == Append(as_results, newResult)
                  newConsecutiveIncorrect ==
                      IF result = "incorrect" THEN consecutiveIncorrect(as_results) + 1 ELSE 0
              IN  IF as_wordIndex = Len(words) - 1 \/ newConsecutiveIncorrect >= StopAfterIncorrect
                  THEN handleAssessmentComplete(newResults, "")
                  ELSE /\ as_results' = newResults
                       /\ as_wordIndex' = as_wordIndex + 1
                       /\ as_note' = ""
                       /\ UNCHANGED <<ap_view, ap_currentCheck, su_finalResult>>
    /\ UNCHANGED <<ap_phonicsSets, ap_checkResults, ap_now, ap_pupil, ap_uploaded>>

\* onViewResult of Dashboard
ViewResult ==
    /\ ap_view = "dashboard"
    /\ \E i \in 1..Len(ap_checkResults) :
           /\ ap_currentCheck' = <<ap_checkResults[i]>>
           /\ su_finalResult' = <<ap_checkResults[i]>>
    /\ ap_view' = "summary"
    /\ UNCHANGED <<ap_phonicsSets, ap_checkResults, ap_now, ap_pupil, ap_uploaded, as_wordIndex,
                   as_results, as_note>>

\* handleCommentChange of Summary
handleCommentChange ==
    /\ ap_view = "summary"
    /\ su_finalResult # <<>>
    /\ \E text \in TypedComments :
           su_finalResult' = <<[su_finalResult[1] EXCEPT !.overallComment = <<text>>]>>
    /\ UNCHANGED <<ap_view, ap_phonicsSets, ap_checkResults, ap_currentCheck, ap_now, ap_pupil,
                   ap_uploaded, as_wordIndex, as_results, as_note>>

\* mutant: the record is appended without the filter
handleSaveCheckAppends ==
    /\ ap_view = "summary"
    /\ su_finalResult # <<>>
    /\ ap_checkResults' = Append(ap_checkResults, su_finalResult[1])
    /\ ap_currentCheck' = <<>>
    /\ ap_view' = "dashboard"
    /\ su_finalResult' = <<>>
    /\ UNCHANGED <<ap_phonicsSets, ap_now, ap_pupil, ap_uploaded, as_wordIndex, as_results, as_note>>

\* onSave of Summary: handleSaveCheck(finalResult)
handleSaveCheck ==
    /\ ap_view = "summary"
    /\ su_finalResult # <<>>
    /\ ap_checkResults' = Append(SelectSeq(ap_checkResults, LAMBDA r : r.id # su_finalResult[1].id),
                                 su_finalResult[1])
    /\ ap_currentCheck' = <<>>
    /\ ap_view' = "dashboard"
    /\ su_finalResult' = <<>>
    /\ UNCHANGED <<ap_phonicsSets, ap_now, ap_pupil, ap_uploaded, as_wordIndex, as_results, as_note>>

AppNext ==
    /\ \/ Navigate \/ handleStartNewCheck \/ OpenUpload \/ UploadSuccess \/ handleDeleteSet
       \/ Cancel \/ handleCreateCheck \/ TypeNote \/ handleMark \/ ViewResult
       \/ handleCommentChange \/ handleSaveCheck
    /\ UNCHANGED <<cm_vars, sf_vars, pdf_vars, ex_vars, cw_vars, xt_vars, up_vars>>

AppSpecInit == AppInit /\ ColumnIdle /\ SheetIdle /\ PdfIdle /\ ExportIdle /\ CellIdle /\ TwiceIdle /\ UploadIdle

SpecApp == AppSpecInit /\ [][AppNext]_vars

\* the records the application holds: the current check, the one the summary
\* view edits, and the saved ones
RecordsHeld ==
    {ap_currentCheck[i] : i \in 1..Len(ap_currentCheck)}
        \cup {su_finalResult[i] : i \in 1..Len(su_finalResult)}
        \cup {ap_checkResults[i] : i \in 1..Len(ap_checkResults)}

\* the words of the term set of the record, the set deleted or not
TermWords(record) == (CHOOSE s \in ap_uploaded : s.id = record.phonicsSetId).words

\* C16: for every record the application holds (the current check in any view,
\* the record the summary view edits, every saved result), score is the number
\* of outcomes with result correct and percentage is score / (number of words
\* of the record's term set) * 100, also after the record was edited in the
\* summary view and saved.
C16_DerivedFields ==
    \A record \in RecordsHeld :
        /\ record.score = Cardinality({i \in 1..Len(record.results) :
                                          record.results[i].result = "correct"})
        /\ record.percentage.den # 0
        /\ record.percentage.num * Len(TermWords(record))
               = record.score * 100 * record.percentage.den

\* a record saved with an edited comment, with some but not all outcomes correct
C16_Witness ==
    \E i \in 1..Len(ap_checkResults) :
        /\ ap_checkResults[i].overallComment = <<"Good">>
        /\ ap_checkResults[i].score > 0
        /\ ap_checkResults[i].score < Len(ap_checkResults[i].results)
        /\ ap_checkResults[i].percentage = [num |-> 100 * ap_checkResults[i].score,
                                            den |-> MaxSetWords]

\* the number of marks after which the assessment of words ends for the pupil:
\* at the last word, or at the first mark that ends a run of 5 incorrect
MarksMade(words) ==
    LET stops == {k \in 1..Len(words) :
                     \/ k = Len(words)
                     \/ /\ k >= 5
                        /\ \A j \in (k - 4)..k : ap_pupil[j] = "incorrect"}
    IN  CHOOSE k \in stops : \A j \in stops : k <= j

\* C17: a record with status completed has as many outcomes as its term set
\* has words, outcome i is for word i of the term set, and every word not
\* marked before the assessment ended has result not_attempted.
C17_CompletedIsPadded ==
    \A record \in RecordsHeld :
        record.status = "completed" =>
            LET words == TermWords(record)
            IN  /\ Len(record.results) = Len(words)
                /\ \A i \in 1..Len(words) :
                       /\ record.results[i].word = words[i]
                       /\ record.results[i].result =
                              IF i <= MarksMade(words) THEN ap_pupil[i] ELSE "not_attempted"

\* an assessment stopped early: the last words of the long set are padded
C17_Witness ==
    \E record \in RecordsHeld :
        /\ record.status = "completed"
        /\ Len(record.results) = MaxSetWords
        /\ MarksMade(TermWords(record)) < MaxSetWords
        /\ record.results[MaxSetWords].result = "not_attempted"
        /\ record.results[1].result = "incorrect"

\* the summary view shows a completed record, every saved record is completed
\* and no two saved records have the same id
C28_Records ==
    /\ ap_view = "summary" =>
           /\ ap_currentCheck # <<>> => ap_currentCheck[1].status = "completed"
           /\ su_finalResult # <<>> => su_finalResult[1].status = "completed"
    /\ \A i \in 1..Len(ap_checkResults) : ap_checkResults[i].status = "completed"
    /\ \A i, j \in 1..Len(ap_checkResults) :
           ap_checkResults[i].id = ap_checkResults[j].id => i = j

\* a save puts the record at the end of the saved list, in the place of the
\* entry with its id if there is one, and keeps the other entries in order
C28_Save ==
    (ap_view = "summary" /\ ap_checkResults' # ap_checkResults) =>
        LET saved == su_finalResult[1]
            others == SelectSeq(ap_checkResults, LAMBDA r : r.id # saved.id)
        IN  /\ ap_checkResults' = Append(others, saved)
            /\ Cardinality({i \in 1..Len(ap_checkResults') :
                               ap_checkResults'[i].id = saved.id}) = 1

\* C28: for any sequence of navigation, create-check, mark, view-result and
\* save actions, the summary view is only shown for a record with status
\* completed, every record of the saved list has status completed, and the
\* saved list never holds two records with the same id: saving a record whose
\* id is present replaces the old entry.
C28_SavedRecords == [](C28_Records) /\ [][C28_Save]_vars

\* two saved records, the one made first saved again after the other
C28_Witness ==
    /\ Len(ap_checkResults) = 2
    /\ ap_checkResults[1].id > ap_checkResults[2].id
    /\ ap_checkResults[2].overallComment = <<"Good">>

(***************************************************************************)
(* Specification SpecAssessment: the assessment view from the moment       *)
(* handleCreateCheck has shown it, with the assessor marking word after    *)
(* word.  The marks are the pupil's (ap_pupil), any sequence of correct    *)
(* and incorrect; the assessor goes on marking while there is a word       *)
(* shown, which is the weak fairness of handleMark.                        *)
(***************************************************************************)
AssessmentInit ==
    /\ ap_view = "assessment"
    /\ ap_phonicsSets = << [id |-> 1, words |-> ShortWords], [id |-> 2, words |-> LongWords] >>
    /\ ap_checkResults = <<>>
    /\ \E i \in 1..2 :
           ap_currentCheck = << [id |-> 3, phonicsSetId |-> i, results |-> <<>>,
                                 status |-> "in_progress", overallComment |-> <<>>,
                                 score |-> 0, percentage |-> Quotient(0, 1)] >>
    /\ ap_now = 3
    /\ ap_pupil \in Pupils
    /\ ap_uploaded = {ap_phonicsSets[i] : i \in 1..Len(ap_phonicsSets)}
    /\ as_wordIndex = 0
    /\ as_results = <<>>
    /\ as_note = ""
    /\ su_finalResult = <<>>

AssessmentNext == (handleMark \/ TypeNote) /\ UNCHANGED <<cm_vars, sf_vars, pdf_vars, ex_vars, cw_vars, xt_vars, up_vars>>

AssessmentSpecInit == AssessmentInit /\ ColumnIdle /\ SheetIdle /\ PdfIdle /\ ExportIdle /\ CellIdle /\ TwiceIdle /\ UploadIdle

SpecAssessment ==
    /\ AssessmentSpecInit /\ [][AssessmentNext]_vars
    /\ WF_vars(handleMark /\ UNCHANGED <<cm_vars, sf_vars, pdf_vars, ex_vars, cw_vars, xt_vars, up_vars>>)

\* the words of the term set of the check being assessed
AssessedWords == TermWords(ap_currentCheck[1])

\* the length of the run of incorrect outcomes at the end of results
TrailingIncorrect(results) ==
    CHOOSE run \in 0..Len(results) :
        /\ \A i \in (Len(results) - run + 1)..Len(results) : results[i].result = "incorrect"
        /\ run = Len(results) \/ results[Len(results) - run].result # "incorrect"

\* the number of marks the record holds: its outcomes correct or incorrect
MarksIn(record) ==
    Cardinality({i \in 1..Len(record.results) : record.results[i].result # "not_attempted"})

\* before completion: the word index is the number of recorded outcomes and is
\* below the word count, and the trailing run of incorrect marks is below 5
C27_BeforeCompletion ==
    ap_view = "assessment" =>
        /\ as_wordIndex = Len(as_results)
        /\ as_wordIndex < Len(AssessedWords)
        /\ TrailingIncorrect(as_results) < StopAfterIncorrect

\* a mark: one outcome for the word shown is appended; it completes the
\* assessment if and only if it is on the last word or makes the trailing run
\* of incorrect marks reach 5, and otherwise the next word is shown
C27_Mark ==
    (ap_view = "assessment" /\ <<as_wordIndex, as_results, ap_view>>' # <<as_wordIndex, as_results, ap_view>>) =>
        LET words == AssessedWords
            outcome == [word |-> words[as_wordIndex + 1], result |-> ap_pupil[as_wordIndex + 1],
                        note |-> as_note]
            marked == Append(as_results, outcome)
            completes == \/ as_wordIndex = Len(words) - 1
                         \/ TrailingIncorrect(marked) >= StopAfterIncorrect
        IN  IF completes
            THEN /\ ap_view' = "summary"
                 /\ ap_currentCheck'[1].status = "completed"
                 /\ SubSeq(ap_currentCheck'[1].results, 1, Len(marked)) = marked
            ELSE /\ ap_view' = "assessment"
                 /\ as_results' = marked
                 /\ as_wordIndex' = as_wordIndex + 1

LastSegment(name) ==
    LET dots == {i \in 1..Len(name) : name[i] = "."}
    IN  IF dots = {} THEN name
        ELSE SubSeq(name, (CHOOSE i \in dots : \A j \in dots : j <= i) + 1, Len(name))

fileExtensionOf(name) == toLowerCase(LastSegment(name))

\* lines 50 to 56: the parser the file is handed to ("none": unsupported)
parserFor(fileExtension) ==
    IF fileExtension = <<"p", "d", "f">> THEN "parsePhonicsPdf"
    ELSE IF fileExtension \in {<<"x", "l", "s", "x">>, <<"x", "l", "s">>} THEN "parsePhonicsFile"
    ELSE "none"

Stems == {<<"w", "o", "r", "d", "s">>, <<"T", "e", "r", "m", " ", "4", " ", "2", "0", "2", "5", "-", "1">>, <<"m", "y", ".", "l", "i", "s", "t">>, <<"s", "e", "t", ".", "x", "l", "s", "x">>, <<"a">>}

Extensions == {<<"x", "l", "s", "x">>, <<"x", "l", "s">>, <<"c", "s", "v">>, <<"p", "d", "f">>, <<"t", "x", "t">>, <<"x", "l", "s", "m">>, <<"d", "o", "c">>, <<>>}

Capitalised(text) ==
    IF text = <<>> THEN text ELSE <<UpperChar(text[1])>> \o SubSeq(text, 2, Len(text))

\* a name with an extension in lower case, in upper case or capitalised, and
\* the names without any dot
FileNames ==
    { stem \o <<".">> \o extension : stem \in Stems, extension \in Extensions }
        \cup { stem \o <<".">> \o SwapCase(extension) : stem \in Stems, extension \in Extensions }
        \cup { stem \o <<".">> \o Capitalised(extension) : stem \in Stems, extension \in Extensions }
        \cup {<<"w", "o", "r", "d", "s">>, <<"p", "h", "o", "n", "i", "c", "s", " ", "l", "i", "s", "t">>}

UploadInit ==
    /\ up_pc = "ready"
    /\ up_file \in { <<[name |-> name, parses |-> parses]>> : name \in FileNames, parses \in BOOLEAN }
    /\ up_parser = "none"
    /\ up_error = ""
    /\ up_newSets = 0

handleUpload ==
    /\ up_pc = "ready"
    /\ up_pc' = "done"
    /\ IF up_file = <<>>
       THEN up_error' = "Please select a file." /\ UNCHANGED <<up_parser, up_newSets>>
       ELSE LET parser == parserFor(fileExtensionOf(up_file[1].name))
            IN  /\ up_parser' = parser
                /\ IF parser = "none"
                   THEN /\ up_error' = "Unsupported file type. Please upload an Excel (.xlsx, .xls) or PDF file."
                        /\ UNCHANGED up_newSets
                   ELSE IF up_file[1].parses
                   THEN up_newSets' = up_newSets + 1 /\ up_error' = ""
                   ELSE up_error' = "the message of the parser" /\ UNCHANGED up_newSets
    /\ UNCHANGED up_file

UploadNext ==
    handleUpload /\ UNCHANGED <<cm_vars, sf_vars, pdf_vars, ex_vars, cw_vars, xt_vars, ap_vars>>

UploadSpecInit == UploadInit /\ ColumnIdle /\ SheetIdle /\ PdfIdle /\ ExportIdle /\ CellIdle /\ TwiceIdle /\ AppIdle

SpecUpload == UploadSpecInit /\ [][UploadNext]_vars

\* the text a name ends with after its last dot, in lower case; none without a dot
ExtensionOf(name) ==
    LET dots == {i \in 1..Len(name) : name[i] = "."}
        last == CHOOSE i \in dots : \A j \in dots : j <= i
    IN  IF dots = {} THEN <<>>
        ELSE [k \in 1..(Len(name) - last) |-> LowerChar(name[last + k])]

\* C18: the upload supports every documented spreadsheet format: a file whose
\* extension is .xlsx, .xls or .csv, in any letter case, is handed to the
\* spreadsheet ingestor, a .pdf file to the PDF extractor, and only files of
\* other extensions are rejected as unsupported.
C18_DocumentedFormats ==
    (up_pc = "done" /\ up_file # <<>>) =>
        LET extension == ExtensionOf(up_file[1].name)
        IN  /\ extension \in {<<"x", "l", "s", "x">>, <<"x", "l", "s">>, <<"c", "s", "v">>} => up_parser = "parsePhonicsFile"
            /\ extension = <<"p", "d", "f">> => up_parser = "parsePhonicsPdf"
            /\ up_parser = "none" => extension \notin {<<"x", "l", "s", "x">>, <<"x", "l", "s">>, <<"c", "s", "v">>, <<"p", "d", "f">>}

(***************************************************************************)
(* Specification SpecColumn: findBestColumnMatch on bounded header lists   *)
(* and candidate lists, together with a second call on the same inputs     *)
(* with the letter case of some of them changed.                           *)
(***************************************************************************)
MaxHeaders == 3

HeaderPool ==
    { <<"I", "t", "e", "m">>,
      <<"M", "y", " ", "I", "t", "e", "m", "s">>,
      <<"i", "t">>,
      <<"W", "o", "r", "d", " ", "T", "y", "p", "e">>,
      <<"G", "r", "a", "p", "h", "e", "m", "e", " ", "T", "y", "p", "e">>,
      <<"N", "o", "t", "e", "s">> }

NamesPool ==
    { ItemNames, GraphemeNames, << <<"t", "y", "p", "e">>, <<"i", "t", "e", "m">> >> }

\* Object.keys yields each key once: header lists hold no header twice
HeaderLists ==
    UNION { { h \in [1..n -> HeaderPool] : \A i, j \in 1..n : h[i] = h[j] => i = j }
            : n \in 0..MaxHeaders }

\* which candidate names get their case changed: none, all, the first or the last
NameMasks(names) == { {}, 1..Len(names), {1}, {Len(names)} }

ChangeCase(list, mask) ==
    [i \in 1..Len(list) |-> IF i \in mask THEN SwapCase(list[i]) ELSE list[i]]

ColumnInit ==
    /\ cm_pc = "ready"
    /\ cm_headers \in HeaderLists
    /\ cm_names \in NamesPool
    /\ \E hm \in SUBSET (1..MaxHeaders) : cm_headers2 = ChangeCase(cm_headers, hm)
    /\ \E nm \in NameMasks(cm_names) : cm_names2 = ChangeCase(cm_names, nm)
    /\ cm_result = Null
    /\ cm_result2 = Null

FindColumn ==
    /\ cm_pc = "ready"
    /\ cm_pc' = "done"
    /\ cm_result' = findBestColumnMatch(cm_headers, cm_names)
    /\ cm_result2' = findBestColumnMatch(cm_headers2, cm_names2)
    /\ UNCHANGED <<cm_headers, cm_names, cm_headers2, cm_names2>>

ColumnNext == FindColumn /\ UNCHANGED <<sf_vars, pdf_vars, ex_vars, cw_vars, xt_vars, ap_vars, up_vars>>

ColumnSpecInit == ColumnInit /\ SheetIdle /\ PdfIdle /\ ExportIdle /\ CellIdle /\ TwiceIdle /\ AppIdle /\ UploadIdle

SpecColumn == ColumnSpecInit /\ [][ColumnNext]_vars

\* position of a returned header in the list it was returned from (0: null)
PositionOf(headers, result) ==
    IF result = Null THEN 0 ELSE FirstTrue([i \in 1..Len(headers) |-> headers[i] = result])

HasExactMatch(headers, names) ==
    \E i \in 1..Len(headers), k \in 1..Len(names) :
        toLowerCase(headers[i]) = toLowerCase(names[k])

IsExactMatch(header, names) ==
    /\ header # Null
    /\ \E k \in 1..Len(names) : toLowerCase(header) = toLowerCase(names[k])

IsSubstringOnly(header, names) ==
    /\ ~IsExactMatch(header, names)
    /\ \E k \in 1..Len(names) : includes(toLowerCase(header), toLowerCase(names[k]))

\* C3: whenever some header equals some candidate name ignoring case, the
\* header findBestColumnMatch returns is an exact match, also when a header
\* that only contains a candidate name stands earlier in the header list.
C3_ExactWins ==
    (cm_pc = "done" /\ HasExactMatch(cm_headers, cm_names))
        => IsExactMatch(cm_result, cm_names)

\* an exact match was returned although a substring-only header stands before it
C3_Witness ==
    /\ cm_pc = "done"
    /\ IsExactMatch(cm_result, cm_names)
    /\ PositionOf(cm_headers, cm_result) > 1
    /\ IsSubstringOnly(cm_headers[1], cm_names)

\* C4: changing the letter case of headers and of candidate names does not
\* change the position of the header findBestColumnMatch returns, nor whether
\* it returns one at all.
C4_CaseInsensitive ==
    cm_pc = "done"
        => PositionOf(cm_headers, cm_result) = PositionOf(cm_headers2, cm_result2)

\* a header was found, and both a header and a candidate name had their case changed
C4_Witness ==
    /\ cm_pc = "done"
    /\ cm_result # Null
    /\ cm_result2 # cm_result
    /\ cm_names2 # cm_names
    /\ PositionOf(cm_headers, cm_result) = PositionOf(cm_headers2, cm_result2)


\* the header matches the candidate name by one of the three rules
Matches(header, name) ==
    \/ toLowerCase(header) = toLowerCase(name)
    \/ includes(toLowerCase(header), toLowerCase(name))
    \/ includes(toLowerCase(name), toLowerCase(header))

Least(positions) == CHOOSE k \in positions : \A j \in positions : k <= j

EqualsName(header, name) == toLowerCase(header) = toLowerCase(name)

ContainsName(header, name) == includes(toLowerCase(header), toLowerCase(name))

\* the positions of the candidate names that match some header by any rule,
\* that equal some header, that are contained in some header
NamesMatching(headers, names) ==
    {k \in 1..Len(names) : \E i \in 1..Len(headers) : Matches(headers[i], names[k])}

NamesEqual(headers, names) ==
    {k \in 1..Len(names) : \E i \in 1..Len(headers) : EqualsName(headers[i], names[k])}

NamesContained(headers, names) ==
    {k \in 1..Len(names) : \E i \in 1..Len(headers) : ContainsName(headers[i], names[k])}

\* C20 as stated: the first candidate name, in the caller's order, that matches
\* any header determines the result, winning over a later candidate name that
\* matches a different header.
C20_FirstNameWins ==
    (cm_pc = "done" /\ NamesMatching(cm_headers, cm_names) # {}) =>
        /\ cm_result # Null
        /\ Matches(cm_result, cm_names[Least(NamesMatching(cm_headers, cm_names))])

\* C20, amended: candidate priority holds within a rule.  When some candidate
\* name equals a header ignoring case, the first such name in the caller's
\* order determines the result; otherwise, when some candidate name is
\* contained in a header, the first such name determines the result, winning
\* over a later name contained in a different header.
C20_FirstNameWinsWithinRule ==
    cm_pc = "done" =>
        LET equal == NamesEqual(cm_headers, cm_names)
            contained == NamesContained(cm_headers, cm_names)
        IN  IF equal # {}
            THEN cm_result # Null /\ EqualsName(cm_result, cm_names[Least(equal)])
            ELSE contained # {} =>
                     /\ cm_result # Null
                     /\ ContainsName(cm_result, cm_names[Least(contained)])

\* no header equals a name; the first header contains a later name only, and
\* the header returned is the one after it, which contains the first name
C20_Witness ==
    /\ cm_pc = "done"
    /\ NamesEqual(cm_headers, cm_names) = {}
    /\ Len(cm_headers) >= 2
    /\ cm_result = cm_headers[2]
    /\ ContainsName(cm_headers[2], cm_names[1])
    /\ ~ContainsName(cm_headers[1], cm_names[1])
    /\ \E k \in 2..Len(cm_names) : ContainsName(cm_headers[1], cm_names[k])

====
